---- MODULE Spec2Model ----
(***************************************************************************)
(* Tabi-Navi backend: the plan table, the history table and the services   *)
(* and routes that read and write them.                                    *)
(*                                                                         *)
(* Granularity.  Every service method (PlanStorageService.*,               *)
(* HistoryService.*, cleanup_old_plans) runs its queries and its commit    *)
(* without a suspension point, so it is one atomic step.  The upsert route *)
(* POST /api/storage/plans makes up to three service calls; requests of    *)
(* different workers may interleave between those calls, so each call is   *)
(* its own step.                                                           *)
(*                                                                         *)
(* Environment.  The commit of a write may be refused by the store (lock,  *)
(* connectivity): the input `fault`.  Queries of a read are assumed to     *)
(* execute.  The wall clock never runs backwards.                          *)
(***************************************************************************)
EXTENDS Integers, Sequences, FiniteSets, TLC

\* Bounds of the model.
MaxTime == 1
MaxRows == 2
MaxSessions == 3

PlanIds == {"p1", "p2"}
Requests == {"r1", "r2"}
CleanupDays == {0, 1}
ListCalls == {<<1, 0>>, <<1, 1>>, <<2, 0>>}

NoRet == "-"

(***************************************************************************)
(* Values                                                                  *)
(***************************************************************************)

\* datetime values: None, a naive datetime, a timezone-aware datetime.
NoDateTime == [kind |-> "None", t |-> 0]
Naive(t) == [kind |-> "naive", t |-> t]
Aware(t) == [kind |-> "aware", t |-> t]

\* Column(DateTime) on SQLite: the bind processor formats year..microsecond
\* and drops tzinfo; the result processor yields a naive datetime.
StoreDateTime(d) == Naive(d.t)

\* Column(JSON): json.dumps on the way in, json.loads on the way out.  A
\* tuple is written as an array and read back as a list.
JsonValue(v) == IF v.kind = "tuple" THEN [v EXCEPT !.kind = "list"] ELSE v

JsonRoundTrip(d) == [k \in DOMAIN d |-> JsonValue(d[k])]

\* TimelineItem / DaySchedule: the pydantic models and their .dict() forms.
TimelineItemDict(i) ==
    [time |-> i.time, activity |-> i.activity, location |-> i.location,
     cost |-> i.cost, duration |-> i.duration, notes |-> i.notes]

DayScheduleDict(s) ==
    [day |-> s.day, date |-> s.date,
     timeline |-> [k \in DOMAIN s.timeline |-> TimelineItemDict(s.timeline[k])],
     daily_cost |-> s.daily_cost, daily_duration |-> s.daily_duration]

\* [s.dict() for s in plan.schedules]
SchedulesDict(ss) == [k \in DOMAIN ss |-> DayScheduleDict(ss[k])]

\* TravelPlan(schedules=db_plan.schedules): pydantic parses each dict back
\* into a DaySchedule with its TimelineItems.
ParseTimelineItem(d) ==
    [time |-> d.time, activity |-> d.activity, location |-> d.location,
     cost |-> d.cost, duration |-> d.duration, notes |-> d.notes]

ParseDaySchedule(d) ==
    [day |-> d.day, date |-> d.date,
     timeline |-> [k \in DOMAIN d.timeline |-> ParseTimelineItem(d.timeline[k])],
     daily_cost |-> d.daily_cost, daily_duration |-> d.daily_duration]

ParseSchedules(ds) == [k \in DOMAIN ds |-> ParseDaySchedule(ds[k])]

(***************************************************************************)
(* Texts and Python values                                                 *)
(*                                                                         *)
(* A text is a sequence of tokens, each a run of characters the code never *)
(* looks inside; white space between tokens is left out.  A Python value   *)
(* is a record [kind, items]: a dict lists its <<key text, value>> pairs,  *)
(* a list its values, a str its text, an int its token.                    *)
(***************************************************************************)
DQ == "\""
SQ == "'"
EscDQ == "\\\""
EscSQ == "\\'"
\* The marker of three backquotes that opens and closes a code block.
Fence == "<fence>"

PyNone == [kind |-> "None", items |-> <<>>]
PyBool(b) == [kind |-> IF b THEN "True" ELSE "False", items |-> <<>>]
PyInt(tok) == [kind |-> "int", items |-> <<tok>>]
PyStr(text) == [kind |-> "str", items |-> text]
PyList(vs) == [kind |-> "list", items |-> vs]
PyDict(kvs) == [kind |-> "dict", items |-> kvs]

\* The number literals the texts use.
NumberTokens == {"0", "1", "42", "429", "600", "5000"}

\* str.find / str.rfind: the position of a token, 0 when it is absent.
Find(t, c, i) ==
    IF \E k \in i..Len(t) : t[k] = c
    THEN CHOOSE k \in i..Len(t) : t[k] = c /\ \A j \in i..(k - 1) : t[j] # c
    ELSE 0
RFind(t, c) ==
    IF \E k \in 1..Len(t) : t[k] = c
    THEN CHOOSE k \in 1..Len(t) : t[k] = c /\ \A j \in (k + 1)..Len(t) : t[j] # c
    ELSE 0

\* dict[key] = value while parsing: a repeated key keeps its place and takes
\* the later value.
PutItem(kvs, key, v) ==
    IF \E k \in DOMAIN kvs : kvs[k][1] = key
    THEN [k \in DOMAIN kvs |-> IF kvs[k][1] = key THEN <<key, v>> ELSE kvs[k]]
    ELSE Append(kvs, <<key, v>>)

HasKey(d, key) == \E k \in DOMAIN d.items : d.items[k][1] = key
GetItem(d, key) ==
    d.items[CHOOSE k \in DOMAIN d.items : d.items[k][1] = key][2]

\* The outcome of parsing a value that starts at a position of a text.
NoParse == [ok |-> FALSE, value |-> PyNone, next |-> 0]
Parsed(v, n) == [ok |-> TRUE, value |-> v, next |-> n]

\* A JSON string literal starting at t[i] = DQ, \" inside it unescaped.
JsonStringAt(t, i) ==
    LET e == Find(t, DQ, i + 1) IN
    IF e = 0 THEN NoParse
    ELSE Parsed(PyStr([k \in 1..(e - i - 1) |->
                          IF t[i + k] = EscDQ THEN DQ ELSE t[i + k]]), e + 1)

RECURSIVE JsonValueAt(_, _), JsonMembersAt(_, _, _), JsonElementsAt(_, _, _)

\* The members of an object from the key at t[i] on.
JsonMembersAt(t, i, acc) ==
    IF i > Len(t) \/ t[i] # DQ THEN NoParse
    ELSE LET key == JsonStringAt(t, i) IN
         IF ~key.ok \/ key.next > Len(t) \/ t[key.next] # ":" THEN NoParse
         ELSE LET v == JsonValueAt(t, key.next + 1) IN
              IF ~v.ok \/ v.next > Len(t) THEN NoParse
              ELSE LET kvs == PutItem(acc, key.value.items, v.value) IN
                   IF t[v.next] = "," THEN JsonMembersAt(t, v.next + 1, kvs)
                   ELSE IF t[v.next] = "}" THEN Parsed(PyDict(kvs), v.next + 1)
                   ELSE NoParse

\* The elements of an array from the value at t[i] on.
JsonElementsAt(t, i, acc) ==
    LET v == JsonValueAt(t, i) IN
    IF ~v.ok \/ v.next > Len(t) THEN NoParse
    ELSE IF t[v.next] = "," THEN JsonElementsAt(t, v.next + 1, Append(acc, v.value))
    ELSE IF t[v.next] = "]" THEN Parsed(PyList(Append(acc, v.value)), v.next + 1)
    ELSE NoParse

JsonValueAt(t, i) ==
    IF i > Len(t) THEN NoParse
    ELSE IF t[i] = "{"
         THEN IF i < Len(t) /\ t[i + 1] = "}" THEN Parsed(PyDict(<<>>), i + 2)
              ELSE JsonMembersAt(t, i + 1, <<>>)
    ELSE IF t[i] = "["
         THEN IF i < Len(t) /\ t[i + 1] = "]" THEN Parsed(PyList(<<>>), i + 2)
              ELSE JsonElementsAt(t, i + 1, <<>>)
    ELSE IF t[i] = DQ THEN JsonStringAt(t, i)
    ELSE IF t[i] \in NumberTokens THEN Parsed(PyInt(t[i]), i + 1)
    ELSE IF t[i] = "null" THEN Parsed(PyNone, i + 1)
    ELSE IF t[i] = "true" THEN Parsed(PyBool(TRUE), i + 1)
    ELSE IF t[i] = "false" THEN Parsed(PyBool(FALSE), i + 1)
    ELSE NoParse

\* json.loads(text): the value, or JSONDecodeError when the text is not one
\* JSON value from its first to its last token.
JsonLoads(t) ==
    LET Whole(r) ==
            IF r.ok /\ r.next = Len(t) + 1
            THEN [result |-> "ok", value |-> r.value]
            ELSE [result |-> "JSONDecodeError", value |-> PyNone]
    IN  Whole(JsonValueAt(t, 1))

\* repr of a str: single quotes, double quotes when the text holds a single
\* quote and no double quote.
ReprStr(text) ==
    IF (\E k \in DOMAIN text : text[k] = SQ) /\ ~(\E k \in DOMAIN text : text[k] = DQ)
    THEN <<DQ>> \o text \o <<DQ>>
    ELSE <<SQ>> \o [k \in DOMAIN text |-> IF text[k] = SQ THEN EscSQ ELSE text[k]] \o <<SQ>>

RECURSIVE PyRepr(_), ReprItems(_, _, _)

\* The reprs of the items from position k on, separated by commas.
ReprItems(v, k, n) ==
    IF k > n THEN <<>>
    ELSE (IF v.kind = "dict"
          THEN ReprStr(v.items[k][1]) \o <<":">> \o PyRepr(v.items[k][2])
          ELSE PyRepr(v.items[k]))
         \o (IF k < n THEN <<",">> ELSE <<>>) \o ReprItems(v, k + 1, n)

\* repr(value)
PyRepr(v) ==
    CASE v.kind = "dict" -> <<"{">> \o ReprItems(v, 1, Len(v.items)) \o <<"}">>
      [] v.kind = "list" -> <<"[">> \o ReprItems(v, 1, Len(v.items)) \o <<"]">>
      [] v.kind = "str" -> ReprStr(v.items)
      [] v.kind = "int" -> v.items
      [] OTHER -> <<v.kind>>

\* str(value): the text of a str, the repr of anything else.
PyStrOf(v) == IF v.kind = "str" THEN v.items ELSE PyRepr(v)

\* fence + "json" in text
HasJsonFence(t) == \E k \in 1..(Len(t) - 1) : t[k] = Fence /\ t[k + 1] = "json"

\* text.split(fence + "json")[1].split(fence)[0]
AfterJsonFence(t) ==
    LET a == CHOOSE k \in 1..(Len(t) - 1) :
                 /\ t[k] = Fence /\ t[k + 1] = "json"
                 /\ \A j \in 1..(k - 1) : ~(t[j] = Fence /\ t[j + 1] = "json")
        \* the second split ends at the next opening or closing fence
        e == Find(t, Fence, a + 2)
    IN  SubSeq(t, a + 2, IF e = 0 THEN Len(t) ELSE e - 1)

\* parse_gemini_response: the JSON taken out of the text and loaded; every
\* failure is a ValueError.
JsonStrOf(t) ==
    IF HasJsonFence(t) THEN AfterJsonFence(t)
    ELSE IF Len(t) > 0 /\ t[1] = Fence /\ t[Len(t)] = Fence
    THEN LET inner == SubSeq(t, 2, Len(t) - 1) IN
         IF Len(inner) > 0 /\ inner[1] = "json" THEN Tail(inner) ELSE inner
    ELSE IF Find(t, "{", 1) # 0 /\ Find(t, "}", 1) # 0
    THEN SubSeq(t, Find(t, "{", 1), RFind(t, "}"))
    ELSE t

ParseGeminiResponse(t) ==
    LET Loaded(r) ==
            IF r.result = "ok" THEN r ELSE [result |-> "ValueError", value |-> PyNone]
    IN  Loaded(JsonLoads(JsonStrOf(t)))

(***************************************************************************)
(* Inputs the model draws from                                             *)
(***************************************************************************)

Kiyomizu ==
    [time |-> "09:00", activity |-> "Kiyomizu-dera", location |-> "None",
     cost |-> 600, duration |-> 60, notes |-> "None"]

DayOne ==
    [day |-> 1, date |-> "2025-01-01", timeline |-> <<Kiyomizu>>,
     daily_cost |-> 5000, daily_duration |-> 480]

DayTwo ==
    [day |-> 2, date |-> "2025-01-02", timeline |-> <<>>,
     daily_cost |-> 0, daily_duration |-> 0]

InterestsList == [kind |-> "list", items |-> <<"temple">>]
InterestsTuple == [kind |-> "tuple", items |-> <<"temple">>]
Str(s) == [kind |-> "str", items |-> <<s>>]

InTokyo == [origin |-> Str("Tokyo"), interests |-> InterestsList]
InOsaka == [origin |-> Str("Osaka"), interests |-> InterestsList]
InTuple == [origin |-> Str("Tokyo"), interests |-> InterestsTuple]

TravelPlan(pid, inp, ss, cost, dur, created) ==
    [plan_id |-> pid, input_data |-> inp, schedules |-> ss,
     total_cost |-> cost, total_duration |-> dur, created_at |-> created]

\* The TravelPlan bodies callers submit: for "p1" one that round-trips, one
\* without created_at, one with a tuple and an aware created_at; for "p2" one.
TravelPlans ==
    { TravelPlan("p1", InTokyo, <<>>, 0, 0, Naive(0)),
      TravelPlan("p1", InOsaka, <<DayOne>>, 50000, 1440, NoDateTime),
      TravelPlan("p1", InTuple, <<DayOne, DayTwo>>, 300, 60, Aware(1)),
      TravelPlan("p2", InOsaka, <<DayOne>>, 50000, 1440, Naive(1)) }

(***************************************************************************)
(* State                                                                   *)
(***************************************************************************)
VARIABLES
    plans,      \* table travel_plans: a set of rows
    history,    \* table timeline_item_history: a set of rows
    nextId,     \* the next fresh row identifier (uuid4 draws)
    now,        \* datetime.now()
    reqs,       \* POST /api/storage/plans requests in flight
    last,       \* the call that returned last, with its outcome
    gen,        \* the POST /api/plans request: where it stands, what it did
    sessions    \* get_db: the Session objects made, each request's position

vars == <<plans, history, nextId, now, reqs, last, gen, sessions>>

\* The record of a call: its argument is kept when the call succeeded.
Call(op, pid, arg, result, ret) ==
    [op |-> op, plan_id |-> pid, arg |-> IF result = "ok" THEN arg ELSE NoRet,
     result |-> result, ret |-> ret, hist_deleted |-> 0,
     route |-> "", req |-> "", status |-> 0]

Idle == [pc |-> "idle", plan |-> NoRet, data |-> <<>>]

\* The outcome of a call in the generation pipeline: what it returned, or the
\* exception it raised with its message.
Returned(v) == [result |-> "ok", value |-> v, msg |-> <<>>]
Raised(exc, msg) == [result |-> exc, value |-> PyNone, msg |-> msg]
NotCalled == [result |-> "-", value |-> PyNone, msg |-> <<>>]

\* No POST /api/plans request yet.
NoGeneration ==
    [pc |-> "idle", input |-> NoRet, prompt |-> [text |-> <<>>, num_days |-> 0],
     sent |-> 0, logs |-> 0, log_failed |-> FALSE,
     answer |-> [kind |-> "-", type |-> "-", msg |-> <<>>, text |-> <<>>],
     call |-> NotCalled, travel |-> NotCalled, plan |-> NotCalled,
     response |-> [status |-> 0, detail |-> <<>>]]

Init ==
    /\ plans = {}
    /\ history = {}
    /\ nextId = 1
    /\ now = 0
    /\ reqs = [r \in Requests |-> Idle]
    /\ last = Call("init", NoRet, NoRet, "ok", NoRet)
    /\ gen = NoGeneration
    /\ sessions = [objs |-> <<>>, at |-> [r \in Requests |-> [pc |-> "idle", db |-> 0]]]

(***************************************************************************)
(* Plan storage service                                                    *)
(***************************************************************************)

RowsOf(pid, tbl) == {r \in tbl : r.plan_id = pid}

\* Mutant of UniqueViolation: the column without unique=True.
NoUniqueConstraint(pid, tbl) == FALSE

\* plan_id = Column(String(36), unique=True, ...): an INSERT of a second row
\* with a stored plan_id raises IntegrityError.
UniqueViolation(pid, tbl) == RowsOf(pid, tbl) # {}

\* Mutant of NewPlanRow: created_at=datetime.now(), whatever the plan carries.
NewPlanRowCreatedNow(plan, id, t) ==
    [id |-> id,
     plan_id |-> plan.plan_id,
     input_data |-> JsonRoundTrip(plan.input_data),
     schedules |-> SchedulesDict(plan.schedules),
     total_cost |-> plan.total_cost,
     total_duration |-> plan.total_duration,
     created_at |-> Naive(t),
     updated_at |-> Naive(t)]

\* TravelPlanDB(...) as save_plan builds it; id and updated_at take their
\* column defaults.
NewPlanRow(plan, id, t) ==
    [id |-> id,
     plan_id |-> plan.plan_id,
     input_data |-> JsonRoundTrip(plan.input_data),
     schedules |-> SchedulesDict(plan.schedules),
     total_cost |-> plan.total_cost,
     total_duration |-> plan.total_duration,
     created_at |-> IF plan.created_at = NoDateTime
                    THEN Naive(t) ELSE StoreDateTime(plan.created_at),
     updated_at |-> Naive(t)]

\* Mutant of SavePlan: db.merge instead of db.add, a stored row of the same
\* plan_id is overwritten.
SavePlanMerges(plan, fault, tbl, id, t) ==
    IF fault
    THEN [result |-> "DatabaseError", ret |-> NoRet, plans |-> tbl, nextId |-> id]
    ELSE [result |-> "ok", ret |-> plan.plan_id,
          plans |-> (tbl \ RowsOf(plan.plan_id, tbl)) \cup {NewPlanRow(plan, id, t)},
          nextId |-> id + 1]

SavePlan(plan, fault, tbl, id, t) ==
    IF fault \/ UniqueViolation(plan.plan_id, tbl)
    THEN [result |-> "DatabaseError", ret |-> NoRet, plans |-> tbl, nextId |-> id]
    ELSE [result |-> "ok", ret |-> plan.plan_id,
          plans |-> tbl \cup {NewPlanRow(plan, id, t)}, nextId |-> id + 1]

\* The TravelPlan get_plan builds from a row.
PlanOfRow(r) ==
    TravelPlan(r.plan_id, r.input_data, ParseSchedules(r.schedules),
               r.total_cost, r.total_duration, r.created_at)

\* Mutant of GetPlan: without `except PlanNotFoundError: raise`, the generic
\* handler turns the not-found error into a DatabaseError.
GetPlanCatchAll(pid, tbl) ==
    IF RowsOf(pid, tbl) = {}
    THEN [result |-> "DatabaseError", ret |-> NoRet]
    ELSE [result |-> "ok", ret |-> PlanOfRow(CHOOSE r \in RowsOf(pid, tbl) : TRUE)]

GetPlan(pid, tbl) ==
    IF RowsOf(pid, tbl) = {}
    THEN [result |-> "PlanNotFoundError", ret |-> NoRet]
    ELSE [result |-> "ok", ret |-> PlanOfRow(CHOOSE r \in RowsOf(pid, tbl) : TRUE)]

\* Mutants of UpdatedRow: total_duration is not assigned; total_cost is not
\* assigned; input_data and created_at are assigned too.
UpdatedRowNoDuration(row, updated_plan, t) ==
    [row EXCEPT !.schedules = SchedulesDict(updated_plan.schedules),
                !.total_cost = updated_plan.total_cost,
                !.updated_at = Naive(t)]

UpdatedRowNoCost(row, updated_plan, t) ==
    [row EXCEPT !.schedules = SchedulesDict(updated_plan.schedules),
                !.total_duration = updated_plan.total_duration,
                !.updated_at = Naive(t)]

UpdatedRowWholePlan(row, updated_plan, t) ==
    [row EXCEPT !.input_data = JsonRoundTrip(updated_plan.input_data),
                !.schedules = SchedulesDict(updated_plan.schedules),
                !.total_cost = updated_plan.total_cost,
                !.total_duration = updated_plan.total_duration,
                !.created_at = IF updated_plan.created_at = NoDateTime
                               THEN Naive(t) ELSE StoreDateTime(updated_plan.created_at),
                !.updated_at = Naive(t)]

\* update_plan's assignments to the row it loaded.
UpdatedRow(row, updated_plan, t) ==
    [row EXCEPT !.schedules = SchedulesDict(updated_plan.schedules),
                !.total_cost = updated_plan.total_cost,
                !.total_duration = updated_plan.total_duration,
                !.updated_at = Naive(t)]

UpdatePlan(pid, updated_plan, fault, tbl, t) ==
    IF RowsOf(pid, tbl) = {}
    THEN [result |-> "PlanNotFoundError", ret |-> NoRet, plans |-> tbl]
    ELSE LET db_plan == CHOOSE r \in RowsOf(pid, tbl) : TRUE IN
         IF fault
         THEN [result |-> "DatabaseError", ret |-> NoRet, plans |-> tbl]
         ELSE [result |-> "ok", ret |-> "True",
               plans |-> (tbl \ {db_plan}) \cup {UpdatedRow(db_plan, updated_plan, t)}]

\* Mutant of DeleteHistoryRows: the DELETE without its plan_id filter.
DeleteHistoryRowsEveryPlan(pid, hist) == {}

\* The two bulk DELETE statements of delete_plan.
DeleteHistoryRows(pid, hist) == hist \ RowsOf(pid, hist)
DeletePlanRows(pid, tbl) == tbl \ RowsOf(pid, tbl)

\* delete_plan: both DELETEs, then the commit, then the test of the second
\* statement's row count.  A refused commit is rolled back; the not-found
\* error is raised after the commit went through.
DeletePlan(pid, fault, tbl, hist) ==
    LET hist2 == DeleteHistoryRows(pid, hist)
        tbl2 == DeletePlanRows(pid, tbl)
        result == Cardinality(tbl) - Cardinality(tbl2)
    IN  IF fault
        THEN [result |-> "DatabaseError", ret |-> NoRet, plans |-> tbl,
              history |-> hist]
        ELSE IF result = 0
        THEN [result |-> "PlanNotFoundError", ret |-> NoRet, plans |-> tbl2,
              history |-> hist2]
        ELSE [result |-> "ok", ret |-> "True", plans |-> tbl2, history |-> hist2]

\* datetime.isoformat()
IsoFormat(d) == [kind |-> "isoformat", t |-> d.t]

\* TravelPlanDB.to_dict()
ToDict(r) ==
    [plan_id |-> r.plan_id, input_data |-> r.input_data, schedules |-> r.schedules,
     total_cost |-> r.total_cost, total_duration |-> r.total_duration,
     created_at |-> IsoFormat(r.created_at), updated_at |-> IsoFormat(r.updated_at)]

\* order_by(desc(created_at)): the rows in every order the query may return
\* them, rows of equal created_at in any order.
NewestFirst(tbl) ==
    {s \in [1..Cardinality(tbl) -> tbl] :
        /\ \A i, j \in DOMAIN s : i # j => s[i] # s[j]
        /\ \A i, j \in DOMAIN s : i < j => s[i].created_at.t >= s[j].created_at.t}

\* Mutant of Page: the limit without the offset.
PageNoOffset(s, limit, offset) ==
    [k \in 1..(IF Len(s) < limit THEN Len(s) ELSE limit) |-> s[k]]

\* .limit(limit).offset(offset)
Page(s, limit, offset) ==
    [k \in 1..(IF Len(s) - offset < limit
               THEN (IF Len(s) > offset THEN Len(s) - offset ELSE 0)
               ELSE limit) |-> s[offset + k]]

\* The lists get_all_plans may return.
GetAllPlans(limit, offset, tbl) ==
    {[k \in DOMAIN Page(s, limit, offset) |-> ToDict(Page(s, limit, offset)[k])]
        : s \in NewestFirst(tbl)}

save_plan(plan, fault) ==
    LET o == SavePlan(plan, fault, plans, nextId, now) IN
    /\ o.result = "ok" => nextId <= MaxRows
    /\ plans' = o.plans
    /\ nextId' = o.nextId
    /\ last' = Call("save_plan", plan.plan_id, plan, o.result, o.ret)
    /\ UNCHANGED <<sessions, gen, history, now, reqs>>

get_plan(pid) ==
    LET o == GetPlan(pid, plans) IN
    /\ last' = Call("get_plan", pid, NoRet, o.result, o.ret)
    /\ UNCHANGED <<sessions, gen, plans, history, nextId, now, reqs>>

get_all_plans(limit, offset) ==
    \E ret \in GetAllPlans(limit, offset, plans) :
        /\ last' = Call("get_all_plans", NoRet, <<limit, offset>>, "ok", ret)
        /\ UNCHANGED <<sessions, gen, plans, history, nextId, now, reqs>>

count_plans ==
    /\ last' = Call("count_plans", NoRet, NoRet, "ok", Cardinality(plans))
    /\ UNCHANGED <<sessions, gen, plans, history, nextId, now, reqs>>

update_plan(pid, updated_plan, fault) ==
    LET o == UpdatePlan(pid, updated_plan, fault, plans, now) IN
    /\ plans' = o.plans
    /\ last' = Call("update_plan", pid, updated_plan, o.result, o.ret)
    /\ UNCHANGED <<sessions, gen, history, nextId, now, reqs>>

delete_plan(pid, fault) ==
    LET o == DeletePlan(pid, fault, plans, history) IN
    /\ plans' = o.plans
    /\ history' = o.history
    /\ last' = [Call("delete_plan", pid, NoRet, o.result, o.ret)
                  EXCEPT !.hist_deleted =
                      Cardinality(history) - Cardinality(o.history)]
    /\ UNCHANGED <<sessions, gen, nextId, now, reqs>>

(***************************************************************************)
(* History service                                                         *)
(***************************************************************************)

NoneValue == [kind |-> "None", items |-> <<>>]
Dict(k, v) == [kind |-> "dict", items |-> <<k, v>>]

Edit(day, idx, op, orig, upd, field) ==
    [day |-> day, item_index |-> idx, operation_type |-> op,
     original_data |-> orig, updated_data |-> upd, field_changed |-> field]

\* The edits callers record, each with the plan_id it is recorded under.
EditCalls ==
    { <<"p1", Edit(1, 0, "update", Dict("time", "09:00"), Dict("time", "10:00"), "time")>>,
      <<"p1", Edit(2, 1, "insert", NoneValue, Dict("activity", "lunch"), "None")>>,
      <<"p2", Edit(1, 2, "delete", Dict("activity", "lunch"), NoneValue, "None")>> }

\* Mutant of NewHistoryRow: the row without the caller's item_index.
NewHistoryRowNoIndex(pid, e, id, t) ==
    [id |-> id,
     plan_id |-> pid,
     day |-> e.day,
     item_index |-> 0,
     operation_type |-> e.operation_type,
     original_data |-> JsonValue(e.original_data),
     updated_data |-> JsonValue(e.updated_data),
     field_changed |-> e.field_changed,
     created_at |-> Naive(t)]

\* TimelineItemHistory(...) as record_edit builds it.
NewHistoryRow(pid, e, id, t) ==
    [id |-> id,
     plan_id |-> pid,
     day |-> e.day,
     item_index |-> e.item_index,
     operation_type |-> e.operation_type,
     original_data |-> JsonValue(e.original_data),
     updated_data |-> JsonValue(e.updated_data),
     field_changed |-> e.field_changed,
     created_at |-> Naive(t)]

\* Mutant of RecordEdit: plan_id is a foreign key, the INSERT for a plan_id
\* with no plan row is refused.
RecordEditForeignKey(pid, e, fault, hist, id, t) ==
    IF fault \/ RowsOf(pid, plans) = {}
    THEN [result |-> "DatabaseError", ret |-> 0, history |-> hist, nextId |-> id]
    ELSE [result |-> "ok", ret |-> id,
          history |-> hist \cup {NewHistoryRow(pid, e, id, t)}, nextId |-> id + 1]

RecordEdit(pid, e, fault, hist, id, t) ==
    IF fault
    THEN [result |-> "DatabaseError", ret |-> 0, history |-> hist, nextId |-> id]
    ELSE [result |-> "ok", ret |-> id,
          history |-> hist \cup {NewHistoryRow(pid, e, id, t)}, nextId |-> id + 1]

\* Mutant of ClearHistory: the DELETE without its plan_id filter.
ClearHistoryEveryPlan(pid, fault, hist) ==
    IF fault
    THEN [result |-> "DatabaseError", ret |-> 0, history |-> hist]
    ELSE [result |-> "ok", ret |-> Cardinality(hist), history |-> {}]

\* Mutant of ClearHistory: the count is returned but the rows stay.
ClearHistoryKeepsRows(pid, fault, hist) ==
    IF fault
    THEN [result |-> "DatabaseError", ret |-> 0, history |-> hist]
    ELSE [result |-> "ok", ret |-> Cardinality(RowsOf(pid, hist)), history |-> hist]

ClearHistory(pid, fault, hist) ==
    IF fault
    THEN [result |-> "DatabaseError", ret |-> 0, history |-> hist]
    ELSE [result |-> "ok", ret |-> Cardinality(RowsOf(pid, hist)),
          history |-> hist \ RowsOf(pid, hist)]

record_edit(pid, e, fault) ==
    LET o == RecordEdit(pid, e, fault, history, nextId, now) IN
    /\ o.result = "ok" => nextId <= MaxRows
    /\ history' = o.history
    /\ nextId' = o.nextId
    /\ last' = Call("record_edit", pid, e, o.result, o.ret)
    /\ UNCHANGED <<sessions, gen, plans, now, reqs>>

clear_history(pid, fault) ==
    LET o == ClearHistory(pid, fault, history) IN
    /\ history' = o.history
    /\ last' = [Call("clear_history", pid, NoRet, o.result, o.ret)
                  EXCEPT !.hist_deleted =
                      Cardinality(history) - Cardinality(o.history)]
    /\ UNCHANGED <<sessions, gen, plans, nextId, now, reqs>>

\* TimelineItemHistory.to_dict()
HistoryToDict(h) ==
    [id |-> h.id, plan_id |-> h.plan_id, day |-> h.day,
     item_index |-> h.item_index, operation_type |-> h.operation_type,
     field_changed |-> h.field_changed, original_data |-> h.original_data,
     updated_data |-> h.updated_data, created_at |-> IsoFormat(h.created_at)]

\* [h.to_dict() for h in histories]
HistoryDicts(s) == [k \in DOMAIN s |-> HistoryToDict(s[k])]

\* filter(plan_id == plan_id, day == day)
RowsOfDay(pid, day, hist) == {h \in RowsOf(pid, hist) : h.day = day}

\* The lists get_history may return: the plan's rows ordered by
\* desc(created_at), rows of equal created_at in any order.
GetHistory(pid, hist) ==
    {HistoryDicts(s) : s \in NewestFirst(RowsOf(pid, hist))}

GetHistoryByDay(pid, day, hist) ==
    {HistoryDicts(s) : s \in NewestFirst(RowsOfDay(pid, day, hist))}

GetHistoryCount(pid, hist) == Cardinality(RowsOf(pid, hist))

GetRecentHistory(pid, limit, hist) ==
    {HistoryDicts(Page(s, limit, 0)) : s \in NewestFirst(RowsOf(pid, hist))}

get_history(pid) ==
    \E ret \in GetHistory(pid, history) :
        /\ last' = Call("get_history", pid, NoRet, "ok", ret)
        /\ UNCHANGED <<sessions, gen, plans, history, nextId, now, reqs>>

get_history_by_day(pid, day) ==
    \E ret \in GetHistoryByDay(pid, day, history) :
        /\ last' = Call("get_history_by_day", pid, day, "ok", ret)
        /\ UNCHANGED <<sessions, gen, plans, history, nextId, now, reqs>>

get_history_count(pid) ==
    /\ last' = Call("get_history_count", pid, NoRet, "ok", GetHistoryCount(pid, history))
    /\ UNCHANGED <<sessions, gen, plans, history, nextId, now, reqs>>

get_recent_history(pid, limit) ==
    \E ret \in GetRecentHistory(pid, limit, history) :
        /\ last' = Call("get_recent_history", pid, limit, "ok", ret)
        /\ UNCHANGED <<sessions, gen, plans, history, nextId, now, reqs>>

(***************************************************************************)
(* database/db.py                                                          *)
(***************************************************************************)

\* The rows cleanup_old_plans selects: created_at < now - timedelta(days).
\* Mutant of OldPlans: created_at <= cutoff_date.
OldPlansInclusive(days, tbl, t) == {r \in tbl : r.created_at.t <= t - days}

OldPlans(days, tbl, t) == {r \in tbl : r.created_at.t < t - days}

CleanupOldPlans(days, fault, tbl, t) ==
    IF fault
    THEN [result |-> "failed", ret |-> 0, plans |-> tbl]
    ELSE [result |-> "ok", ret |-> Cardinality(OldPlans(days, tbl, t)),
          plans |-> tbl \ OldPlans(days, tbl, t)]

cleanup_old_plans(days, fault) ==
    LET o == CleanupOldPlans(days, fault, plans, now) IN
    /\ plans' = o.plans
    /\ last' = Call("cleanup_old_plans", NoRet, days, o.result, o.ret)
    /\ UNCHANGED <<sessions, gen, history, nextId, now, reqs>>

(***************************************************************************)
(* database/db.py: get_db                                                  *)
(*                                                                         *)
(* A storage route declares db: Session = Depends(get_db).  The framework  *)
(* runs the generator up to its yield, calls the handler with the yielded  *)
(* Session, and resumes the generator when the handler has returned or     *)
(* raised.  The services are module-level objects that keep no session:    *)
(* every method takes db as an argument.                                   *)
(***************************************************************************)

\* db = SessionLocal(): a new Session object on every call.
NewSession(r) == [owner |-> r, closes |-> 0, used_by |-> {}, ended |-> "-"]

\* Mutant of Closes: db.close() follows the yield with no try/finally.
ClosesOnReturnOnly(outcome) == outcome = "returned"

\* try: yield db / finally: db.close()
Closes(outcome) == outcome \in {"returned", "raised"}

get_db(r) ==
    /\ sessions.at[r].pc = "idle"
    /\ Len(sessions.objs) < MaxSessions
    /\ sessions' = [objs |-> Append(sessions.objs, NewSession(r)),
                    at |-> [sessions.at EXCEPT ![r] =
                               [pc |-> "yielded", db |-> Len(sessions.objs) + 1]]]
    /\ UNCHANGED <<gen, plans, history, nextId, now, reqs, last>>

\* The handler passes its db to a service method.
UseSession(r) ==
    /\ sessions.at[r].pc = "yielded"
    /\ sessions' = [sessions EXCEPT !.objs[sessions.at[r].db].used_by = @ \cup {r}]
    /\ UNCHANGED <<gen, plans, history, nextId, now, reqs, last>>

\* The handler returns its response or raises (HTTPException).
HandlerEnds(r, outcome) ==
    /\ sessions.at[r].pc = "yielded"
    /\ sessions' = [sessions EXCEPT !.at[r].pc = outcome,
                                    !.objs[sessions.at[r].db].ended = outcome]
    /\ UNCHANGED <<gen, plans, history, nextId, now, reqs, last>>

\* The generator is resumed (or the exception thrown into it) and finishes.
GetDbExit(r) ==
    /\ sessions.at[r].pc \in {"returned", "raised"}
    /\ sessions' = [objs |-> [sessions.objs EXCEPT ![sessions.at[r].db].closes =
                                  IF Closes(sessions.at[r].pc) THEN @ + 1 ELSE @],
                    at |-> [sessions.at EXCEPT ![r] = [pc |-> "idle", db |-> 0]]]
    /\ UNCHANGED <<gen, plans, history, nextId, now, reqs, last>>

(***************************************************************************)
(* routes/storage.py: POST /api/storage/plans                              *)
(***************************************************************************)

\* The record of a service call made by request r of the upsert route;
\* status is 0 until the route responds.
RouteCall(c, r, status) ==
    [c EXCEPT !.route = "POST /api/storage/plans", !.req = r, !.status = status]

\* The request arrives and the route calls get_plan: found, it goes on to
\* update_plan; PlanNotFoundError, to save_plan; any other exception is a 500.
UpsertCheck(r, plan) ==
    LET o == GetPlan(plan.plan_id, plans)
        c == Call("get_plan", plan.plan_id, NoRet, o.result, o.ret)
    IN  /\ reqs[r].pc = "idle"
        /\ reqs' = [reqs EXCEPT ![r] =
               IF o.result = "ok" THEN [Idle EXCEPT !.pc = "update", !.plan = plan]
               ELSE IF o.result = "PlanNotFoundError"
               THEN [Idle EXCEPT !.pc = "insert", !.plan = plan]
               ELSE Idle]
        /\ last' = RouteCall(c, r,
               IF o.result \in {"ok", "PlanNotFoundError"} THEN 0 ELSE 500)
        /\ UNCHANGED <<sessions, gen, plans, history, nextId, now>>

\* Mutant of UpsertUpdate: the PlanNotFoundError of update_plan is not caught
\* by the inner try and ends the request.
UpsertUpdateNoFallThrough(r, fault) ==
    LET plan == reqs[r].plan
        o == UpdatePlan(plan.plan_id, plan, fault, plans, now)
        c == Call("update_plan", plan.plan_id, plan, o.result, o.ret)
    IN  /\ reqs[r].pc = "update"
        /\ plans' = o.plans
        /\ reqs' = [reqs EXCEPT ![r] = Idle]
        /\ last' = RouteCall(c, r, IF o.result = "ok" THEN 200 ELSE 500)
        /\ UNCHANGED <<sessions, gen, history, nextId, now>>

\* update_plan inside the inner try: PlanNotFoundError falls to save_plan.
UpsertUpdate(r, fault) ==
    LET plan == reqs[r].plan
        o == UpdatePlan(plan.plan_id, plan, fault, plans, now)
        c == Call("update_plan", plan.plan_id, plan, o.result, o.ret)
    IN  /\ reqs[r].pc = "update"
        /\ plans' = o.plans
        /\ reqs' = [reqs EXCEPT ![r] =
               IF o.result = "PlanNotFoundError"
               THEN [Idle EXCEPT !.pc = "insert", !.plan = plan] ELSE Idle]
        /\ last' = RouteCall(c, r,
               IF o.result = "ok" THEN 200
               ELSE IF o.result = "PlanNotFoundError" THEN 0 ELSE 500)
        /\ UNCHANGED <<sessions, gen, history, nextId, now>>

\* save_plan in the except clause: its DatabaseError is a 500.
UpsertInsert(r, fault) ==
    LET plan == reqs[r].plan
        o == SavePlan(plan, fault, plans, nextId, now)
        c == Call("save_plan", plan.plan_id, plan, o.result, o.ret)
    IN  /\ reqs[r].pc = "insert"
        /\ o.result = "ok" => nextId <= MaxRows
        /\ plans' = o.plans
        /\ nextId' = o.nextId
        /\ reqs' = [reqs EXCEPT ![r] = Idle]
        /\ last' = RouteCall(c, r, IF o.result = "ok" THEN 200 ELSE 500)
        /\ UNCHANGED <<sessions, gen, history, now>>

(***************************************************************************)
(* routes/storage.py: GET /api/storage/plans/{plan_id}                     *)
(***************************************************************************)

\* One service call: the plan with status 200, PlanNotFoundError as 404,
\* DatabaseError as 500.
GetPlanRoute(pid) ==
    LET Answered(o) ==
            [Call("get_plan", pid, NoRet, o.result, o.ret)
                EXCEPT !.route = "GET /api/storage/plans/{plan_id}",
                       !.status = IF o.result = "ok" THEN 200
                                  ELSE IF o.result = "PlanNotFoundError" THEN 404
                                  ELSE 500]
    IN  /\ last' = Answered(GetPlan(pid, plans))
        /\ UNCHANGED <<sessions, gen, plans, history, nextId, now, reqs>>

(***************************************************************************)
(* routes/storage.py: GET /api/storage/plans/history                       *)
(***************************************************************************)

\* The request arrives and the route calls get_all_plans(db, limit, offset).
ListPlans(r, limit, offset) ==
    \E ret \in GetAllPlans(limit, offset, plans) :
        /\ reqs[r].pc = "idle"
        /\ reqs' = [reqs EXCEPT ![r] = [Idle EXCEPT !.pc = "count", !.data = ret]]
        /\ last' = [Call("get_all_plans", NoRet, <<limit, offset>>, "ok", ret)
                      EXCEPT !.route = "GET /api/storage/plans/history", !.req = r]
        /\ UNCHANGED <<sessions, gen, plans, history, nextId, now>>

\* The route calls count_plans and responds with data, count and total.
ListCount(r) ==
    LET data == reqs[r].data
        total_count == Cardinality(plans)
    IN  /\ reqs[r].pc = "count"
        /\ reqs' = [reqs EXCEPT ![r] = Idle]
        /\ last' = [Call("count_plans", NoRet, NoRet, "ok",
                         [success |-> TRUE, data |-> data,
                          count |-> Len(data), total |-> total_count])
                      EXCEPT !.route = "GET /api/storage/plans/history",
                             !.req = r, !.status = 200]
        /\ UNCHANGED <<sessions, gen, plans, history, nextId, now>>

(***************************************************************************)
(* routes/storage.py: GET /api/storage/plans/{plan_id}/edit-history        *)
(***************************************************************************)

\* The request arrives and the route calls get_plan: PlanNotFoundError is a
\* 404, a plan found lets the route go on to get_recent_history.
EditHistoryCheck(r, pid, limit) ==
    LET o == GetPlan(pid, plans)
        c == Call("get_plan", pid, NoRet, o.result, o.ret)
    IN  /\ reqs[r].pc = "idle"
        /\ reqs' = [reqs EXCEPT ![r] =
               IF o.result = "ok"
               THEN [Idle EXCEPT !.pc = "history", !.plan = pid, !.data = <<limit>>]
               ELSE Idle]
        /\ last' = [c EXCEPT !.route = "GET /api/storage/plans/{plan_id}/edit-history",
                             !.req = r,
                             !.status = IF o.result = "ok" THEN 0
                                        ELSE IF o.result = "PlanNotFoundError"
                                        THEN 404 ELSE 500]
        /\ UNCHANGED <<sessions, gen, plans, history, nextId, now>>

\* The route calls get_recent_history and responds with data and count.
EditHistoryRead(r) ==
    /\ reqs[r].pc = "history"
    /\ \E histories \in GetRecentHistory(reqs[r].plan, reqs[r].data[1], history) :
          last' = [Call("get_recent_history", reqs[r].plan, reqs[r].data[1], "ok",
                        [success |-> TRUE, data |-> histories,
                         count |-> Len(histories)])
                     EXCEPT !.route = "GET /api/storage/plans/{plan_id}/edit-history",
                            !.req = r, !.status = 200]
    /\ reqs' = [reqs EXCEPT ![r] = Idle]
    /\ UNCHANGED <<sessions, gen, plans, history, nextId, now>>

(***************************************************************************)
(* Plan generation: routes/plan.py, services/plan_generator.py,            *)
(* services/gemini_service.py, services/prompts/travel_plan_prompt.py      *)
(*                                                                         *)
(* POST /api/plans suspends twice: while the model client works in its     *)
(* thread, and while the log file is written.  The request is a step up to *)
(* the first, a step between the two, and a step after the second.         *)
(* Messages are texts; the fixed wording of the code's messages is one     *)
(* token each.  The models are those of pydantic 2 (the code configures    *)
(* them with json_schema_extra).                                           *)
(***************************************************************************)

\* TravelInput bodies; the model has no validator, any str is a date and any
\* int a budget.
GenInput(start, end, budget) ==
    [origin |-> "Tokyo", destination |-> "Kyoto", start_date |-> start,
     end_date |-> end, budget |-> budget]

GenInputs ==
    { GenInput("2025-01-01", "2025-01-05", 100000),
      GenInput("2025-01-01", "2025-01-01", 100000),
      GenInput("2025-01-05", "2025-01-01", 100000),
      GenInput("2025-01-01", "2025-01-05", 0),
      GenInput("2025-01-01", "2025-01-05", -1),
      GenInput("01/05/2025", "2025-01-05", 100000) }

\* datetime.strptime(text, "%Y-%m-%d"): the day number of the date, or
\* ValueError for a text of another format.
Strptime(text) ==
    CASE text = "2025-01-01" -> Returned(1)
      [] text = "2025-01-05" -> Returned(5)
      [] OTHER -> Raised("ValueError", <<"time data does not match format">>)

\* create_travel_prompt: the days are counted from the two dates, nothing is
\* compared or rejected.
CreateTravelPrompt(inp) ==
    LET start == Strptime(inp.start_date)
        end == Strptime(inp.end_date)
    IN  IF start.result # "ok" THEN start
        ELSE IF end.result # "ok" THEN end
        ELSE Returned([text |-> <<"You are a travel planner", inp.origin,
                                  inp.destination, inp.start_date, inp.end_date>>,
                       num_days |-> end.value - start.value + 1])

\* GeminiService._create_travel_prompt
CreatePrompt(inp) ==
    LET r == CreateTravelPrompt(inp) IN
    IF r.result = "ok" THEN r
    ELSE Raised("GeminiAPIError", <<"prompt error: ", r.result>> \o r.msg)

\* An outcome of model.generate_content.
Answer(kind, type, msg, text) == [kind |-> kind, type |-> type, msg |-> msg, text |-> text]
\* The texts a response may carry: empty, prose, JSON that is no plan, a
\* plan in the format the prompt asks for, and JSON string literals whose
\* content is one of these.
ResponseTexts ==
    LET Quoted(t) ==
            <<DQ>> \o [k \in DOMAIN t |-> IF t[k] = DQ THEN EscDQ ELSE t[k]] \o <<DQ>>
        Key(name) == <<DQ, name, DQ, ":">>
        Array == <<"[", "]">>
        EmptyObject == <<"{", "}">>
        EmptySchedules == <<"{">> \o Key("schedules") \o <<"[", "]", "}">>
        IntSchedule == <<"{">> \o Key("schedules") \o <<"[", "1", "]", "}">>
        NoDate ==
            <<"{">> \o Key("schedules") \o <<"[", "{">> \o Key("day")
                \o <<"1", "}", "]", "}">>
        ItemText ==
            <<"{">> \o Key("time") \o <<DQ, "09:00", DQ, ",">> \o Key("activity")
                \o <<DQ, "Kiyomizu-dera", DQ, ",">> \o Key("cost") \o <<"600", "}">>
        ItemNoActivity == <<"{">> \o Key("time") \o <<DQ, "09:00", DQ, "}">>
        PlanOf(item) ==
            <<"{">> \o Key("schedules") \o <<"[", "{">> \o Key("day") \o <<"1", ",">>
                \o Key("date") \o <<DQ, "2025-01-01", DQ, ",">> \o Key("timeline")
                \o <<"[">> \o item \o <<"]", "}", "]", ",">>
                \o Key("total_cost") \o <<"5000", "}">>
        FencedPlan == <<"Here", Fence, "json">> \o PlanOf(ItemText) \o <<Fence>>
    IN  { <<>>, <<"Sorry", "no", "plan">>, <<"Error", "429", "quota">>,
          Array, <<"42">>, <<"null">>, EmptyObject, EmptySchedules, PlanOf(ItemText),
          Quoted(PlanOf(ItemText)), Quoted(FencedPlan), Quoted(EmptyObject),
          Quoted(EmptySchedules), Quoted(IntSchedule), Quoted(NoDate),
          Quoted(PlanOf(ItemNoActivity)), Quoted(Array) }

\* What the model client does with a request: no answer within the timeout,
\* an exception, a falsy response, a response whose .text raises, a response
\* with a text.
Answers ==
    { Answer("timeout", "-", <<>>, <<>>),
      Answer("falsy", "-", <<>>, <<>>),
      Answer("blocked", "-", <<>>, <<>>),
      Answer("raises", "ResourceExhausted", <<"429", "quota exceeded">>, <<>>),
      Answer("raises", "ConnectionError", <<"connection reset">>, <<>>),
      Answer("raises", "ValueError", <<"bad argument">>, <<>>) }
    \cup { Answer("text", "-", <<>>, t) : t \in ResponseTexts }

\* The calls of model.generate_content that _sync_generate_content makes for
\* a prompt: none for an empty prompt, else the one of line 123.
GenerateContentCalls(prompt) == IF Len(prompt.text) = 0 THEN <<>> ELSE <<prompt>>

\* GeminiService._sync_generate_content, in its thread
SyncGenerateContent(prompt, answer) ==
    IF Len(prompt.text) = 0
    THEN Raised("GeminiAPIError", <<"parameter error: ", "prompt is empty">>)
    ELSE IF answer.kind = "raises"
    THEN IF answer.type = "ValueError"
         THEN Raised("GeminiAPIError", <<"parameter error: ">> \o answer.msg)
         ELSE Raised("GeminiAPIError",
                     <<"content generation error: ", answer.type>> \o answer.msg)
    ELSE IF answer.kind = "falsy"
    THEN Raised("GeminiAPIError", <<"the API returned no response">>)
    ELSE Returned(answer)

\* GeminiService._call_api
CallApi(prompt, answer) ==
    LET r == SyncGenerateContent(prompt, answer) IN
    IF r.result # "ok" THEN r
    ELSE IF r.value.kind = "blocked"
    THEN Raised("GeminiAPIError", <<"API call error: ", "ValueError", "no valid part">>)
    ELSE IF Len(r.value.text) = 0
    THEN Raised("GeminiAPIError", <<"the API returned no text">>)
    ELSE LET j == JsonLoads(r.value.text) IN
         IF j.result = "ok" THEN Returned(j.value)
         ELSE Raised("GeminiAPIError",
                     <<"JSON parse error: ", "response: ">> \o r.value.text)

\* The same with the timeout left to the caller.
CallGeminiNoTimeoutHandler(prompt, answer) ==
    IF answer.kind = "timeout" /\ Len(prompt.text) > 0
    THEN Raised("TimeoutError", <<>>)
    ELSE CallApi(prompt, answer)

\* GeminiService.call_gemini: wait_for gives up on an answer that does not
\* come within the timeout.
CallGemini(prompt, answer) ==
    IF answer.kind = "timeout" /\ Len(prompt.text) > 0
    THEN Raised("GeminiAPIError", <<"Gemini API timeout">>)
    ELSE CallApi(prompt, answer)

\* The same with the failure of the write passed on.
SaveApiLogPropagates(written) ==
    IF written THEN Returned(PyNone) ELSE Raised("OSError", <<"No space left on device">>)

\* GeminiService._save_api_log: a failed write is printed as a warning.
SaveApiLog(written) == Returned(PyNone)

\* GeminiService.generate_travel_plan from the return of _save_api_log on.
TravelPlanAfterLog(response, log) ==
    IF log.result = "ok" THEN response
    ELSE Raised("GeminiAPIError", <<"travel plan error: ", log.result>> \o log.msg)

\* A key of a parsed object is the one-token text of its name.
Has(d, name) == HasKey(d, <<name>>)
Item(d, name) == GetItem(d, <<name>>)

\* "key" in value, for the values this works on; TypeError otherwise.
Contains(v, key) ==
    CASE v.kind = "dict" -> Has(v, key)
      [] v.kind = "list" -> \E k \in DOMAIN v.items : v.items[k] = PyStr(<<key>>)
      [] v.kind = "str" -> \E k \in DOMAIN v.items : v.items[k] = key

\* The checks of one schedule, lines 157 to 162.
ValidateSchedule(s) ==
    IF s.kind \notin {"dict", "list", "str"} THEN "TypeError"
    ELSE IF ~Contains(s, "day") \/ ~Contains(s, "date") \/ ~Contains(s, "timeline")
    THEN "ValueError"
    ELSE IF s.kind # "dict" THEN "TypeError"
    ELSE IF Item(s, "timeline").kind # "list" THEN "ValueError"
    ELSE "ok"

\* validate_plan_structure: "ok", or the kind of the exception raised.  The
\* schedules are checked in order, the first failure is the one raised.
ValidatePlanStructure(v) ==
    IF v.kind # "dict" THEN "AttributeError"
    ELSE IF ~Has(v, "schedules") THEN "ValueError"
    ELSE LET ss == Item(v, "schedules") IN
         IF ss.kind # "list" \/ Len(ss.items) = 0 THEN "ValueError"
         ELSE IF \A k \in DOMAIN ss.items : ValidateSchedule(ss.items[k]) = "ok"
         THEN "ok"
         ELSE ValidateSchedule(
                  ss.items[CHOOSE k \in DOMAIN ss.items :
                               /\ ValidateSchedule(ss.items[k]) # "ok"
                               /\ \A j \in 1..(k - 1) :
                                      ValidateSchedule(ss.items[j]) = "ok"])

\* json.dumps(v): the text of a JSON value.
RECURSIVE JsonText(_)
JsonText(v) ==
    LET RECURSIVE Join(_)
        Join(ts) == IF Len(ts) = 0 THEN <<>>
                    ELSE IF Len(ts) = 1 THEN ts[1]
                    ELSE ts[1] \o <<",">> \o Join(Tail(ts))
        Quoted(t) ==
            <<DQ>> \o [k \in DOMAIN t |-> IF t[k] = DQ THEN EscDQ ELSE t[k]] \o <<DQ>>
    IN  CASE v.kind = "dict" ->
                 <<"{">> \o Join([k \in DOMAIN v.items |->
                                     Quoted(v.items[k][1]) \o <<":">>
                                         \o JsonText(v.items[k][2])]) \o <<"}">>
          [] v.kind = "list" ->
                 <<"[">> \o Join([k \in DOMAIN v.items |-> JsonText(v.items[k])])
                     \o <<"]">>
          [] v.kind = "str" -> Quoted(v.items)
          [] v.kind = "int" -> v.items
          [] v.kind = "None" -> <<"null">>
          [] v.kind = "True" -> <<"true">>
          [] v.kind = "False" -> <<"false">>

\* The values the responses carry: plans, objects that are no plan, values
\* that are no object.
PromptValues ==
    LET Obj(name, v) == PyDict(<<<<<<name>>, v>>>>)
        Schedules(ss) == Obj("schedules", PyList(ss))
        Day(extra) ==
            PyDict(<<<<<<"day">>, PyInt("1")>>, <<<<"date">>, PyStr(<<"2025-01-01">>)>>>>
                       \o extra)
        Timeline(v) == <<<<<<"timeline">>, v>>>>
        Words == PyStr(<<"day", "date", "timeline">>)
        Keys == PyList(<<PyStr(<<"day">>), PyStr(<<"date">>), PyStr(<<"timeline">>)>>)
    IN  { PyDict(<<>>), Schedules(<<>>), Schedules(<<Day(Timeline(PyList(<<>>)))>>),
          PyDict(<<<<<<"schedules">>, PyList(<<Day(Timeline(PyList(<<>>)))>>)>>,
                   <<<<"total_cost">>, PyInt("5000")>>>>),
          Schedules(<<Day(Timeline(PyList(<<>>))), Day(Timeline(PyList(<<PyInt("1")>>)))>>),
          Schedules(<<Day(Timeline(PyList(<<>>))), Day(<<>>)>>),
          Schedules(<<Day(<<>>)>>), Schedules(<<Day(Timeline(PyInt("1")))>>),
          Schedules(<<Day(Timeline(PyNone))>>),
          Schedules(<<PyDict(<<<<<<"day">>, PyInt("1")>>>>)>>),
          Schedules(<<PyDict(<<>>)>>), Schedules(<<PyInt("1")>>), Schedules(<<PyNone>>),
          Schedules(<<Words>>), Schedules(<<Keys>>), Schedules(<<PyList(<<>>)>>),
          Obj("schedules", PyInt("1")), Obj("schedules", Words),
          Obj("schedules", PyNone), Obj("schedules", PyDict(<<>>)),
          Obj("notes", PyStr(<<"see", Fence, "below">>)),
          Obj("notes", PyStr(<<"a", Fence, "json", "block">>)),
          Obj("notes", PyStr(<<"{", "draft", "}">>)),
          Obj("notes", PyStr(<<"said", DQ, "hello", DQ>>)),
          PyList(<<>>), PyList(<<PyDict(<<>>)>>), PyInt("42"), PyNone, PyBool(TRUE),
          PyStr(<<"schedules">>) }

\* The ways a response carries the text s of a value.
Wrappings == {"plain", "json block", "block", "prose", "prose and json block",
              "prose with braces", "prose with block"}

Wrapped(w, s) ==
    CASE w = "plain" -> s
      [] w = "json block" -> <<Fence, "json">> \o s \o <<Fence>>
      [] w = "block" -> <<Fence>> \o s \o <<Fence>>
      [] w = "prose" -> <<"Here", "is", "your", "plan", ":">> \o s \o <<"Enjoy", "!">>
      [] w = "prose and json block" ->
             <<"Here", "it", "is", ":", Fence, "json">> \o s \o <<Fence, "Enjoy", "!">>
      [] w = "prose with braces" ->
             <<"The", "plan", "{", "draft", "}", ":">> \o s
      [] w = "prose with block" ->
             <<"See", Fence, "json", Fence, ":">> \o s

\* response_text: a value's text in one of the wrappings, or no JSON at all.
PromptTexts ==
    { Wrapped(w, JsonText(v)) : w \in Wrappings, v \in PromptValues }
        \cup { <<>>, <<"Sorry", "no", "plan">>, <<Fence>>, <<Fence, Fence>>,
               <<"}", "{">>, <<"{", DQ, "schedules", DQ, ":", "[">>,
               <<Fence, "json", "{", "}">> }

parse_gemini_response(response_text) ==
    LET Result(o) ==
            [Call("parse_gemini_response", NoRet, response_text, o.result, o.value)
                EXCEPT !.arg = response_text]
    IN  /\ last' = Result(ParseGeminiResponse(response_text))
        /\ UNCHANGED <<sessions, gen, plans, history, nextId, now, reqs>>

validate_plan_structure(plan_dict) ==
    LET Result(r) ==
            [Call("validate_plan_structure", NoRet, plan_dict, r, r = "ok")
                EXCEPT !.arg = plan_dict]
    IN  /\ last' = Result(ValidatePlanStructure(plan_dict))
        /\ UNCHANGED <<sessions, gen, plans, history, nextId, now, reqs>>

\* Fields of the pydantic models: an int takes an int, a bool or a str of
\* digits.
IsInt(v) ==
    \/ v.kind \in {"int", "True", "False"}
    \/ v.kind = "str" /\ Len(v.items) = 1 /\ v.items[1] \in NumberTokens

\* TimelineItem(**item) validates: time and activity are required strs,
\* location and notes optional strs or None, cost and duration optional ints.
IsTimelineItem(v) ==
    /\ v.kind = "dict"
    /\ \A key \in {"time", "activity"} : Has(v, key) /\ Item(v, key).kind = "str"
    /\ \A key \in {"location", "notes"} :
           Has(v, key) => Item(v, key).kind \in {"str", "None"}
    /\ \A key \in {"cost", "duration"} : Has(v, key) => IsInt(Item(v, key))

\* DaySchedule(**day_data) validates, day_data being a dict: day is a
\* required int, date a required str, the rest optional.
IsDaySchedule(v) ==
    /\ Has(v, "day") /\ IsInt(Item(v, "day"))
    /\ Has(v, "date") /\ Item(v, "date").kind = "str"
    /\ \A key \in {"daily_cost", "daily_duration"} :
           Has(v, key) => IsInt(Item(v, key))
    /\ Has(v, "timeline") =>
           /\ Item(v, "timeline").kind = "list"
           /\ \A k \in DOMAIN Item(v, "timeline").items :
                  IsTimelineItem(Item(v, "timeline").items[k])

\* PlanGeneratorService._convert_to_travel_plan, for plan_data that passed
\* validate_plan_structure: a failed model validation is pydantic's
\* ValidationError, a ValueError.
ConvertToTravelPlan(pid, inp, plan_data, created) ==
    LET ss == Item(plan_data, "schedules").items
        Get(key) == IF Has(plan_data, key) THEN Item(plan_data, key) ELSE PyInt("0")
        total_cost == Get("total_cost")
        total_duration == Get("total_duration")
    IN  IF /\ \A k \in DOMAIN ss : IsDaySchedule(ss[k])
           /\ IsInt(total_cost) /\ IsInt(total_duration)
        THEN Returned(TravelPlan(pid, inp, ss, total_cost, total_duration, Naive(created)))
        ELSE Raised("ValueError", <<"validation error for model">>)

\* str(uuid.uuid4()) of the request
GeneratedId == "g1"

\* PlanGeneratorService.generate_plan from the return of generate_travel_plan
\* on: the two except clauses take GeminiAPIError, ValueError and
\* ValidationError; any other exception leaves as it is.
GeneratePlan(inp, travel, created) ==
    IF travel.result = "GeminiAPIError"
    THEN Raised("GeminiAPIError", <<"plan generation failed: ">> \o travel.msg)
    ELSE IF travel.result # "ok" THEN travel
    ELSE LET AfterConvert(plan) ==
                 IF plan.result = "ok" THEN plan
                 ELSE Raised("ValidationError",
                             <<"data validation error: ">> \o plan.msg)
             AfterValidate(plan_data, valid) ==
                 IF valid = "ValueError"
                 THEN Raised("ValidationError",
                             <<"data validation error: ", "invalid structure">>)
                 ELSE IF valid # "ok"
                 THEN Raised(valid, <<"unsupported operation on the value">>)
                 ELSE AfterConvert(ConvertToTravelPlan(GeneratedId, inp,
                                                    plan_data, created))
             AfterParse(text, parsed) ==
                 IF parsed.result # "ok"
                 THEN Raised("ValidationError",
                             <<"data validation error: ", "JSON parse error: ">>
                                 \o text)
                 ELSE AfterValidate(parsed.value, ValidatePlanStructure(parsed.value))
             AfterStr(text) == AfterParse(text, ParseGeminiResponse(text))
         IN  AfterStr(PyStrOf(travel.value))

\* "429" in error_msg or "ResourceExhausted" in error_msg
IsRateLimit(msg) ==
    \E k \in DOMAIN msg : msg[k] = "429" \/ msg[k] = "ResourceExhausted"
RateLimitDetail == <<"The AI service reached its rate limit, try again in a minute">>

\* The same with every failure a server error.
PlanResponseAll500(outcome) ==
    IF outcome.result = "ok" THEN [status |-> 200, detail |-> <<>>]
    ELSE [status |-> 500, detail |-> <<"unexpected error: ", outcome.result>> \o outcome.msg]

\* routes/plan.py generate_plan: the response for the outcome of
\* PlanGeneratorService.generate_plan.
PlanResponse(outcome) ==
    CASE outcome.result = "ok" -> [status |-> 200, detail |-> <<>>]
      [] outcome.result = "ValidationError" ->
             [status |-> 400, detail |-> <<"input validation error: ">> \o outcome.msg]
      [] outcome.result = "GeminiAPIError" ->
             [status |-> 503,
              detail |-> IF IsRateLimit(outcome.msg) THEN RateLimitDetail
                         ELSE <<"AI plan generation error: ">> \o outcome.msg]
      [] OTHER ->
             [status |-> 500,
              detail |-> <<"unexpected error: ", outcome.result>> \o outcome.msg]

\* The request from the outcome of generate_travel_plan to its response.
Respond(g, travel, created) ==
    LET Response(plan) ==
            [g EXCEPT !.pc = "done", !.travel = travel, !.plan = plan,
                      !.response = PlanResponse(plan)]
    IN  Response(GeneratePlan(g.input, travel, created))

\* POST /api/plans up to the call of the model client.
PostPlans(inp) ==
    /\ gen.pc \in {"idle", "done"}
    /\ LET prompt == CreatePrompt(inp)
           g == [NoGeneration EXCEPT !.input = inp]
       IN  gen' = IF prompt.result # "ok" THEN Respond(g, prompt, now)
                  ELSE [g EXCEPT !.pc = "calling", !.prompt = prompt.value,
                                 !.sent = Len(GenerateContentCalls(prompt.value))]
    /\ UNCHANGED <<sessions, plans, history, nextId, now, reqs, last>>

\* The model client answers, or the wait for it ends: call_gemini returns or
\* raises, and after a return the log write starts.
ClientAnswers(answer) ==
    /\ gen.pc = "calling"
    /\ LET call == CallGemini(gen.prompt, answer)
           g == [gen EXCEPT !.answer = answer, !.call = call]
       IN  gen' = IF call.result = "ok"
                  THEN [g EXCEPT !.pc = "logging", !.logs = gen.logs + 1]
                  ELSE Respond(g, call, now)
    /\ UNCHANGED <<sessions, plans, history, nextId, now, reqs, last>>

\* Mutant of LogWritten: the generator stores the plan it returns.
LogWrittenSavesPlan(written) ==
    /\ gen.pc = "logging"
    /\ gen' = Respond([gen EXCEPT !.log_failed = ~written],
                      TravelPlanAfterLog(gen.call, SaveApiLog(written)), now)
    /\ plans' = plans \cup
           {NewPlanRow(TravelPlan(GeneratedId, InTokyo, <<>>, 0, 0, NoDateTime),
                       nextId, now)}
    /\ nextId' = nextId + 1
    /\ UNCHANGED <<sessions, history, now, reqs, last>>

\* The log write ends, written or not, and the request runs to its response.
LogWritten(written) ==
    /\ gen.pc = "logging"
    /\ gen' = Respond([gen EXCEPT !.log_failed = ~written],
                      TravelPlanAfterLog(gen.call, SaveApiLog(written)), now)
    /\ UNCHANGED <<sessions, plans, history, nextId, now, reqs, last>>

(***************************************************************************)
(* Specifications                                                          *)
(***************************************************************************)

Tick ==
    /\ now < MaxTime
    /\ now' = now + 1
    /\ UNCHANGED <<sessions, gen, plans, history, nextId, reqs, last>>

\* The service calls, with the commits the store refuses drawn from Faults.
Services(Faults) ==
    \/ \E plan \in TravelPlans, fault \in Faults : save_plan(plan, fault)
    \/ \E pid \in PlanIds : get_plan(pid)
    \/ \E plan \in TravelPlans, fault \in Faults :
          update_plan(plan.plan_id, plan, fault)
    \/ \E pid \in PlanIds, fault \in Faults : delete_plan(pid, fault)
    \/ \E c \in EditCalls, fault \in Faults : record_edit(c[1], c[2], fault)
    \/ \E pid \in PlanIds, fault \in Faults : clear_history(pid, fault)
    \/ \E days \in CleanupDays, fault \in Faults : cleanup_old_plans(days, fault)

\* The calls that only read the plan table.
Reads ==
    \/ \E c \in ListCalls : get_all_plans(c[1], c[2])
    \/ count_plans

\* Service calls one after another on a store that accepts every commit.
Next == Services({FALSE}) \/ Reads \/ Tick

Spec == Init /\ [][Next]_vars

\* The same on a store that may refuse a commit.
NextFault == Services(BOOLEAN) \/ Tick

SpecFault == Init /\ [][NextFault]_vars

\* The requests sent to the upsert route: two bodies for the same plan that
\* differ in every field, the second one sent by either client.
UpsertCalls ==
    { <<"r1", TravelPlan("p1", InTokyo, <<>>, 0, 0, Naive(0))>>,
      <<"r1", TravelPlan("p1", InOsaka, <<DayOne>>, 50000, 1440, NoDateTime)>>,
      <<"r2", TravelPlan("p1", InOsaka, <<DayOne>>, 50000, 1440, NoDateTime)>> }

\* The service calls other requests make meanwhile.
OtherSaves ==
    { TravelPlan("p2", InOsaka, <<DayOne>>, 50000, 1440, Naive(1)) }
OtherUpdates ==
    { TravelPlan("p1", InTuple, <<DayOne, DayTwo>>, 300, 60, Aware(1)) }
OtherEdits ==
    { <<"p1", Edit(1, 0, "update", Dict("time", "09:00"), Dict("time", "10:00"), "time")>> }

\* Requests to the upsert route interleaved with each other and with the
\* writes of other requests.
NextRoutes ==
    \/ \E c \in UpsertCalls : UpsertCheck(c[1], c[2])
    \/ \E r \in Requests : UpsertUpdate(r, FALSE)
    \/ \E r \in Requests : UpsertInsert(r, FALSE)
    \/ \E plan \in OtherSaves : save_plan(plan, FALSE)
    \/ \E plan \in OtherUpdates : update_plan(plan.plan_id, plan, FALSE)
    \/ \E pid \in PlanIds : delete_plan(pid, FALSE)
    \/ \E days \in CleanupDays : cleanup_old_plans(days, FALSE)
    \/ \E c \in OtherEdits : record_edit(c[1], c[2], FALSE)
    \/ Tick

SpecRoutes == Init /\ [][NextRoutes]_vars

\* The plans saved, the days and the limits asked for while reading.
ReadSaves ==
    { TravelPlan("p1", InTokyo, <<>>, 0, 0, Naive(0)),
      TravelPlan("p1", InOsaka, <<DayOne>>, 50000, 1440, NoDateTime),
      TravelPlan("p2", InOsaka, <<DayOne>>, 50000, 1440, Naive(1)) }
HistorySaves == { TravelPlan("p1", InTokyo, <<>>, 0, 0, Naive(0)) }
Days == {1, 2}
HistoryLimits == {1, 2}
ListRequests == {"r1"}

\* The history service's reads between the writes that add and remove
\* history rows.
NextHistory ==
    \/ \E plan \in HistorySaves : save_plan(plan, FALSE)
    \/ \E pid \in PlanIds : delete_plan(pid, FALSE)
    \/ \E c \in EditCalls : record_edit(c[1], c[2], FALSE)
    \/ \E pid \in PlanIds : clear_history(pid, FALSE)
    \/ \E pid \in PlanIds : get_history(pid)
    \/ \E pid \in PlanIds, day \in Days : get_history_by_day(pid, day)
    \/ \E pid \in PlanIds : get_history_count(pid)
    \/ \E pid \in PlanIds, limit \in HistoryLimits : get_recent_history(pid, limit)
    \/ Tick

SpecHistory == Init /\ [][NextHistory]_vars

\* The plan list, read by the service and by the list route, between the
\* writes that add and remove plan rows.
NextList ==
    \/ \E plan \in ReadSaves : save_plan(plan, FALSE)
    \/ \E pid \in PlanIds : delete_plan(pid, FALSE)
    \/ \E c \in ListCalls : get_all_plans(c[1], c[2])
    \/ count_plans
    \/ \E r \in ListRequests, c \in ListCalls : ListPlans(r, c[1], c[2])
    \/ \E r \in ListRequests : ListCount(r)
    \/ Tick

SpecList == Init /\ [][NextList]_vars

\* The edit-history route between the writes that add and remove plans and
\* history rows.
NextEditHistory ==
    \/ \E plan \in HistorySaves : save_plan(plan, FALSE)
    \/ \E pid \in PlanIds : delete_plan(pid, FALSE)
    \/ \E c \in EditCalls : record_edit(c[1], c[2], FALSE)
    \/ \E r \in ListRequests, pid \in PlanIds, limit \in HistoryLimits :
          EditHistoryCheck(r, pid, limit)
    \/ \E r \in ListRequests : EditHistoryRead(r)
    \/ Tick

SpecEditHistory == Init /\ [][NextEditHistory]_vars

\* POST /api/plans requests one after the other, against any answer of the
\* model client and any fate of the log write.
\* The sessions of the storage routes' requests.  The event loop runs every
\* handler to its end and then the exit of its dependency.
NextSessions ==
    \/ \E r \in Requests : get_db(r)
    \/ \E r \in Requests : UseSession(r)
    \/ \E r \in Requests, outcome \in {"returned", "raised"} : HandlerEnds(r, outcome)
    \/ \E r \in Requests : GetDbExit(r)

SpecSessions ==
    /\ Init /\ [][NextSessions]_vars
    /\ \A r \in Requests :
          /\ WF_vars(\E outcome \in {"returned", "raised"} : HandlerEnds(r, outcome))
          /\ WF_vars(GetDbExit(r))

\* POST /api/plans next to the storage routes.  A client that was answered
\* with a plan may post it to the upsert route under the plan_id it was
\* given; anyone may ask the get route for that plan_id at any time.  uuid4
\* never draws a plan_id that is stored, so a further generation starts only
\* while the plan_id it will draw is not stored.
NextGenerateStore ==
    \/ \E inp \in GenInputs :
          RowsOf(GeneratedId, plans) = {} /\ PostPlans(inp)
    \/ \E answer \in Answers : ClientAnswers(answer)
    \/ \E written \in BOOLEAN : LogWritten(written)
    \/ \E r \in ListRequests :
          /\ gen.pc = "done" /\ gen.plan.result = "ok"
          /\ UpsertCheck(r, TravelPlan(gen.plan.value.plan_id, InTokyo, <<DayOne>>,
                                       50000, 1440, NoDateTime))
    \/ \E r \in ListRequests, fault \in BOOLEAN : UpsertUpdate(r, fault)
    \/ \E r \in ListRequests, fault \in BOOLEAN : UpsertInsert(r, fault)
    \/ GetPlanRoute(GeneratedId)

SpecGenerateStore == Init /\ [][NextGenerateStore]_vars

\* The two functions of travel_plan_prompt.py on their own: a response text
\* is parsed, and what the parse returned is validated, as generate_plan does.
NextPrompt ==
    \/ \E response_text \in PromptTexts : parse_gemini_response(response_text)
    \/ /\ last.op = "parse_gemini_response" /\ last.result = "ok"
       /\ validate_plan_structure(last.ret)

SpecPrompt == Init /\ [][NextPrompt]_vars

NextGenerate ==
    \/ \E inp \in GenInputs : PostPlans(inp)
    \/ \E answer \in Answers : ClientAnswers(answer)
    \/ \E written \in BOOLEAN : LogWritten(written)
    \/ Tick

SpecGenerate == Init /\ [][NextGenerate]_vars

(***************************************************************************)
(* Properties                                                              *)
(***************************************************************************)

\* A step taken by the call `op` (the clock stands still during a call).
OpStep(op) == now' = now /\ last'.op = op

\* The rows of every plan but pid.
RowsNotOf(pid, tbl) == {r \in tbl : r.plan_id # pid}

IsJsonNative(d) == \A k \in DOMAIN d : d[k].kind # "tuple"

\* get_plan(pid) returns the same in both states of a step.
SameGetPlan(pid) ==
    LET a == GetPlan(pid, plans)
        b == GetPlan(pid, plans')
    IN  /\ a.result = b.result
        /\ a.result = "ok" => a.ret = b.ret

\* A step that updates or deletes the plan pid.
UpdatesOrDeletes(pid) ==
    \/ last'.op \in {"update_plan", "delete_plan"} /\ last'.plan_id = pid
    \/ last'.op = "cleanup_old_plans"

\* C1 as claimed: after save_plan(P) succeeded for a plan_id not stored
\* before, get_plan(P.plan_id) returns a plan whose plan_id, input_data,
\* schedules, total_cost, total_duration and created_at equal those of P.
C1_SaveGetRoundTrip ==
    (last.op = "save_plan" /\ last.result = "ok") =>
        LET P == last.arg
            g == GetPlan(P.plan_id, plans)
        IN  /\ g.result = "ok"
            /\ g.ret.plan_id = P.plan_id
            /\ g.ret.input_data = P.input_data
            /\ g.ret.schedules = P.schedules
            /\ g.ret.total_cost = P.total_cost
            /\ g.ret.total_duration = P.total_duration
            /\ g.ret.created_at = P.created_at

\* What get_plan returns right after save_plan(P) succeeded.
C1_RoundTripAfterSave ==
    (OpStep("save_plan") /\ last'.result = "ok") =>
        LET P == last'.arg
            g == GetPlan(P.plan_id, plans')
        IN  /\ RowsOf(P.plan_id, plans) = {}
            /\ g.result = "ok"
            /\ g.ret.plan_id = P.plan_id
            /\ g.ret.schedules = P.schedules
            /\ g.ret.total_cost = P.total_cost
            /\ g.ret.total_duration = P.total_duration
            /\ IsJsonNative(P.input_data) => g.ret.input_data = P.input_data
            /\ \A k \in DOMAIN P.input_data :
                  /\ g.ret.input_data[k].items = P.input_data[k].items
                  /\ P.input_data[k].kind = "tuple" => g.ret.input_data[k].kind = "list"
            /\ P.created_at.kind = "naive" => g.ret.created_at = P.created_at
            /\ P.created_at.kind = "None" => g.ret.created_at = Naive(now)
            /\ P.created_at.kind = "aware" => g.ret.created_at = Naive(P.created_at.t)

\* C1 (amended): after save_plan(P) succeeded for a plan_id not stored before,
\* and until that plan is updated or deleted, get_plan(P.plan_id) returns a
\* plan whose plan_id, schedules, total_cost and total_duration equal those
\* of P; whose input_data is P.input_data as read back from JSON (equal to it
\* when it is JSON-native, a tuple read back as a list); and whose created_at
\* is P.created_at when that is a naive datetime, the time of the save when
\* it is None, and P.created_at without its timezone when it is aware.
C1_SaveGetRoundTripAmended ==
    [][ /\ C1_RoundTripAfterSave
        /\ \A pid \in PlanIds :
              (RowsOf(pid, plans) # {} /\ ~UpdatesOrDeletes(pid)) => SameGetPlan(pid)
      ]_vars

\* C1 witness: a plan with a naive created_at and JSON-native input_data and a
\* non-empty schedule was saved and is stored.
C1_Witness ==
    /\ last.op = "save_plan"
    /\ last.result = "ok"
    /\ last.arg.created_at.kind = "naive"
    /\ IsJsonNative(last.arg.input_data)
    /\ last.arg.schedules # <<>>
    /\ GetPlan(last.plan_id, plans).result = "ok"

\* C2 as claimed: whenever delete_plan raises an error, the plan table and
\* the history table are as they were before the call.
C2_DeleteAllOrNothing ==
    [][ (OpStep("delete_plan") /\ last'.result # "ok") =>
            (plans' = plans /\ history' = history) ]_vars

\* C3: after delete_plan(p) succeeded no plan row and no history row of p
\* remains, get_plan(p) fails with PlanNotFoundError, and the rows of every
\* other plan_id in both tables are unchanged.
C3_DeleteCascade ==
    [][ (OpStep("delete_plan") /\ last'.result = "ok") =>
            LET p == last'.plan_id IN
            /\ RowsOf(p, plans) # {}
            /\ RowsOf(p, plans') = {}
            /\ RowsOf(p, history') = {}
            /\ GetPlan(p, plans').result = "PlanNotFoundError"
            /\ RowsNotOf(p, plans') = RowsNotOf(p, plans)
            /\ RowsNotOf(p, history') = RowsNotOf(p, history) ]_vars

\* C3 witness: a delete_plan succeeded that removed history rows with the
\* plan row.
C3_Witness ==
    /\ last.op = "delete_plan"
    /\ last.result = "ok"
    /\ last.hist_deleted > 0

UpsertRoute == "POST /api/storage/plans"

RowIds(tbl) == {r.id : r \in tbl}

\* C4: when a request to POST /api/storage/plans is answered with success,
\* then at that commit exactly one plan row with the request's plan_id is
\* stored and its schedules, total_cost and total_duration are the request
\* body's; the row was updated if one was stored and inserted otherwise.
C4_UpsertRoute ==
    [][ \A r \in Requests :
          (reqs[r].pc # "idle" /\ reqs'[r].pc = "idle" /\ last'.status = 200) =>
              LET body == reqs[r].plan
                  p == body.plan_id
                  g == GetPlan(p, plans')
              IN  /\ last'.route = UpsertRoute
                  /\ last'.req = r
                  /\ Cardinality(RowsOf(p, plans')) = 1
                  /\ g.result = "ok"
                  /\ g.ret.schedules = body.schedules
                  /\ g.ret.total_cost = body.total_cost
                  /\ g.ret.total_duration = body.total_duration
                  /\ IF RowsOf(p, plans) # {}
                     THEN /\ last'.op = "update_plan"
                          /\ RowIds(plans') = RowIds(plans)
                     ELSE /\ last'.op = "save_plan"
                          /\ plans \subseteq plans'
                          /\ Cardinality(plans') = Cardinality(plans) + 1
      ]_vars

\* C4 witness: the route answered success after updating a stored row with a
\* body that differs from what was stored.
C4_Witness ==
    /\ last.route = UpsertRoute
    /\ last.status = 200
    /\ last.op = "update_plan"
    /\ last.arg.total_cost = 50000
    /\ \E r \in RowsOf(last.plan_id, plans) : r.input_data = InTokyo

\* C5: get_plan on a plan_id with no stored row fails with PlanNotFoundError,
\* never with DatabaseError, and leaves both tables unchanged.
C5_GetUnknownPlan ==
    [][ (OpStep("get_plan") /\ RowsOf(last'.plan_id, plans) = {}) =>
            /\ last'.result = "PlanNotFoundError"
            /\ plans' = plans
            /\ history' = history ]_vars

\* C5 witness: get_plan failed for a plan_id that is not stored while the
\* other plan is.
C5_Witness ==
    /\ last.op = "get_plan"
    /\ last.result = "PlanNotFoundError"
    /\ RowsOf(last.plan_id, plans) = {}
    /\ plans # {}

\* C6: update_plan(p, U) on a stored plan_id sets the stored schedules,
\* total_cost and total_duration to those of U and updated_at to a time not
\* earlier than before; on a plan_id that is not stored it fails with
\* PlanNotFoundError and changes nothing.
C6_UpdatePlan ==
    [][ OpStep("update_plan") =>
            LET p == last'.plan_id IN
            IF RowsOf(p, plans) = {}
            THEN /\ last'.result = "PlanNotFoundError"
                 /\ plans' = plans
                 /\ history' = history
            ELSE LET U == last'.arg
                     g == GetPlan(p, plans')
                 IN  /\ last'.result = "ok"
                     /\ g.result = "ok"
                     /\ g.ret.schedules = U.schedules
                     /\ g.ret.total_cost = U.total_cost
                     /\ g.ret.total_duration = U.total_duration
                     /\ \A a \in RowsOf(p, plans), b \in RowsOf(p, plans') :
                           b.updated_at.t >= a.updated_at.t
      ]_vars

\* C6 witness: an update at a later time than the save replaced a stored
\* plan's schedules, total_cost and total_duration.
C6_Witness ==
    /\ last.op = "update_plan"
    /\ last.result = "ok"
    /\ \E r \in RowsOf(last.plan_id, plans) :
          /\ r.updated_at.t > 0
          /\ r.total_cost = last.arg.total_cost
          /\ r.input_data # JsonRoundTrip(last.arg.input_data)

\* C7: a stored row's plan_id, input_data and created_at never change;
\* update_plan, called directly or by the upsert route, adds and removes no
\* row and leaves the history table alone; and a call made for one plan_id
\* leaves the rows of every other plan_id as they were.
C7_ImmutableFields ==
    [][ /\ \A a \in plans, b \in plans' :
              a.id = b.id => /\ b.plan_id = a.plan_id
                             /\ b.input_data = a.input_data
                             /\ b.created_at = a.created_at
        /\ OpStep("update_plan") =>
              /\ RowIds(plans') = RowIds(plans)
              /\ history' = history
        /\ (now' = now /\ last'.op \in {"save_plan", "get_plan", "update_plan", "delete_plan"}) =>
              RowsNotOf(last'.plan_id, plans') = RowsNotOf(last'.plan_id, plans)
      ]_vars

\* C7 witness: an update succeeded whose plan carried another input_data and
\* another created_at than the stored row keeps.
C7_Witness ==
    /\ last.op = "update_plan"
    /\ last.result = "ok"
    /\ \E r \in RowsOf(last.plan_id, plans) :
          /\ r.input_data.origin # last.arg.input_data.origin
          /\ r.created_at # last.arg.created_at
          /\ r.total_cost = last.arg.total_cost

\* C8: save_plan with a plan_id that is already stored fails with
\* DatabaseError and leaves the plan table (and the history table) unchanged.
C8_SaveDuplicate ==
    [][ (OpStep("save_plan") /\ RowsOf(last'.plan_id, plans) # {}) =>
            /\ last'.result = "DatabaseError"
            /\ plans' = plans
            /\ history' = history ]_vars

\* C8 witness: a save_plan was refused for a plan_id that is stored.
C8_Witness ==
    /\ last.op = "save_plan"
    /\ last.result = "DatabaseError"
    /\ RowsOf(last.plan_id, plans) # {}

\* C9: the plan table holds at most one row per plan_id.
C9_UniquePlanId ==
    \A a \in plans, b \in plans : a.plan_id = b.plan_id => a = b

\* C9 witness: two upsert requests both found the plan_id missing, one
\* inserted it and the insert of the other was refused.
C9_Witness ==
    /\ last.route = UpsertRoute
    /\ last.op = "save_plan"
    /\ last.result = "DatabaseError"
    /\ RowsOf(last.plan_id, plans) # {}

\* C10: a history row, once recorded, stays as it is until delete_plan or
\* clear_history is called with its plan_id.
C10_HistoryAppendOnly ==
    [][ \A h \in history :
            \/ h \in history'
            \/ /\ now' = now
               /\ last'.op \in {"delete_plan", "clear_history"}
               /\ last'.plan_id = h.plan_id ]_vars

\* C10 witness: a history row of a plan is stored after that plan was updated.
C10_Witness ==
    /\ last.op = "update_plan"
    /\ last.result = "ok"
    /\ RowsOf(last.plan_id, history) # {}

\* The list s holds each of the rows exactly once, as to_dict gives them.
ExactlyRows(s, rows) ==
    /\ Len(s) = Cardinality(rows)
    /\ {s[k] : k \in DOMAIN s} = {HistoryToDict(h) : h \in rows}

\* The list s holds the n rows of `rows` that rank highest by key (all of
\* them when there are fewer than n), each once.
TopRows(s, n, rows, key(_)) ==
    /\ Len(s) = (IF Cardinality(rows) < n THEN Cardinality(rows) ELSE n)
    /\ \A i, j \in DOMAIN s : i # j => s[i] # s[j]
    /\ \A k \in DOMAIN s : \E h \in rows : s[k] = HistoryToDict(h)
    /\ \A h \in rows :
          (\A k \in DOMAIN s : s[k] # HistoryToDict(h)) =>
              \A k \in DOMAIN s : key(HistoryToDict(h)) <= key(s[k])

\* Rows are numbered in the order they were recorded: no row of s comes
\* after a row that was recorded earlier.
RecordOrder(d) == d.id
LaterRecordedFirst(s) ==
    \A i, j \in DOMAIN s : i < j => RecordOrder(s[i]) > RecordOrder(s[j])

\* No row of s comes after a row with an earlier created_at.
CreatedAt(d) == d.created_at.t
CreatedAtDescending(s) ==
    \A i, j \in DOMAIN s : i < j => CreatedAt(s[i]) >= CreatedAt(s[j])

\* What the three history reads return, given the order their lists keep.
HistoryReads(Ordered(_), key(_)) ==
    /\ OpStep("get_history") =>
          /\ ExactlyRows(last'.ret, RowsOf(last'.plan_id, history))
          /\ Ordered(last'.ret)
    /\ OpStep("get_history_by_day") =>
          /\ ExactlyRows(last'.ret, RowsOfDay(last'.plan_id, last'.arg, history))
          /\ Ordered(last'.ret)
    /\ OpStep("get_recent_history") =>
          /\ TopRows(last'.ret, last'.arg, RowsOf(last'.plan_id, history), key)
          /\ Ordered(last'.ret)

\* C11: get_history(p) returns exactly the rows of p, get_history_by_day(p, d)
\* exactly those of p and day d, get_recent_history(p, n) the n most recently
\* recorded rows of p, and in each list a row recorded later never comes
\* after a row recorded earlier.
C11_HistoryNewestFirst ==
    [][ HistoryReads(LaterRecordedFirst, RecordOrder) ]_vars

\* What the reads do guarantee: the same rows, ordered by created_at
\* descending, the rows of one created_at in any order.
HistoryByCreatedAt ==
    [][ HistoryReads(CreatedAtDescending, CreatedAt) ]_vars

\* A step in which record_edit(p, ...) returned.
RecordedFor(p) ==
    OpStep("record_edit") /\ last'.result = "ok" /\ last'.plan_id = p

\* C12: a successful record_edit(p, e) adds exactly one history row, with
\* plan_id p and the day, item_index, operation kind, payloads and changed
\* field of e, and returns its identifier, which no row had before; the
\* count of p grows by one and no other count changes. In every other step
\* the count of a plan stays as it is, or falls to zero in a step of
\* clear_history or delete_plan called with that plan_id.
C12_RecordEdit ==
    [][ \A p \in PlanIds :
          LET c == GetHistoryCount(p, history)
              d == GetHistoryCount(p, history')
          IN  IF RecordedFor(p)
              THEN /\ d = c + 1
                   /\ \A q \in PlanIds \ {p} :
                         GetHistoryCount(q, history') = GetHistoryCount(q, history)
                   /\ history \subseteq history'
                   /\ Cardinality(history') = Cardinality(history) + 1
                   /\ \A h \in history' \ history :
                         /\ h.plan_id = p
                         /\ h.day = last'.arg.day
                         /\ h.item_index = last'.arg.item_index
                         /\ h.operation_type = last'.arg.operation_type
                         /\ h.original_data = last'.arg.original_data
                         /\ h.updated_data = last'.arg.updated_data
                         /\ h.field_changed = last'.arg.field_changed
                         /\ h.id = last'.ret
                         /\ \A g \in history : g.id # h.id
              ELSE \/ d = c
                   \/ /\ d = 0
                      /\ now' = now
                      /\ last'.op \in {"clear_history", "delete_plan"}
                      /\ last'.plan_id = p
      ]_vars

\* C12 witness: get_history_count returned 2 for a plan after a second
\* record_edit for it.
C12_Witness ==
    /\ last.op = "get_history_count"
    /\ last.ret = 2
    /\ \E h \in RowsOf(last.plan_id, history) : h.item_index = 1

\* C13: clear_history(p) returns the number of history rows p had before the
\* call, afterwards p has none, and the history rows of every other plan_id
\* and all plan rows are as before.
C13_ClearHistory ==
    [][ (OpStep("clear_history") /\ last'.result = "ok") =>
            LET p == last'.plan_id IN
            /\ last'.ret = GetHistoryCount(p, history)
            /\ GetHistoryCount(p, history') = 0
            /\ RowsNotOf(p, history') = RowsNotOf(p, history)
            /\ plans' = plans ]_vars

\* C13 witness: clear_history removed a row of a plan whose plan row is
\* stored, and the plan row is still there.
C13_Witness ==
    /\ last.op = "clear_history"
    /\ last.result = "ok"
    /\ last.ret > 0
    /\ RowsOf(last.plan_id, plans) # {}

ListRoute == "GET /api/storage/plans/history"

\* min(limit, max(0, n - offset))
PageSize(limit, offset, n) ==
    LET rest == IF n - offset > 0 THEN n - offset ELSE 0
    IN  IF limit < rest THEN limit ELSE rest

\* The list s is a page of the plan table sorted by created_at descending:
\* its entries are stored plans, each once, in descending order, and the
\* other plans split into `offset` skipped ones (all of them when fewer are
\* left) that sort before the page and the rest that sort after it.
IsPageOfPlans(s, limit, offset, tbl) ==
    LET ret == {r \in tbl : \E k \in DOMAIN s : s[k] = ToDict(r)}
        rest == tbl \ ret
    IN  /\ Len(s) = PageSize(limit, offset, Cardinality(tbl))
        /\ Cardinality(ret) = Len(s)
        /\ \A k \in DOMAIN s : \E r \in tbl : s[k] = ToDict(r)
        /\ CreatedAtDescending(s)
        /\ \E skipped \in SUBSET rest :
              /\ Cardinality(skipped) =
                     (IF offset < Cardinality(tbl) THEN offset ELSE Cardinality(tbl))
              /\ \A r \in skipped, k \in DOMAIN s : r.created_at.t >= CreatedAt(s[k])
              /\ \A r \in rest \ skipped, k \in DOMAIN s : r.created_at.t <= CreatedAt(s[k])

\* C14: get_all_plans(limit, offset) returns the page of the stored plans,
\* sorted by created_at descending, that skips `offset` plans and holds at
\* most `limit`, hence min(limit, max(0, N - offset)) entries; count_plans
\* returns N; and the list route responds with count the length of its data
\* and total the number of stored plans.
C14_ListPlans ==
    [][ /\ OpStep("get_all_plans") =>
              IsPageOfPlans(last'.ret, last'.arg[1], last'.arg[2], plans)
        /\ (OpStep("count_plans") /\ last'.route = "") =>
              last'.ret = Cardinality(plans)
        /\ (OpStep("count_plans") /\ last'.route = ListRoute) =>
              /\ last'.status = 200
              /\ last'.ret.count = Len(last'.ret.data)
              /\ last'.ret.total = Cardinality(plans)
      ]_vars

\* C14 witness: with two plans stored the route answered total 2 and a page
\* of one entry, the older plan, which the offset left.
C14_Witness ==
    /\ last.route = ListRoute
    /\ last.status = 200
    /\ last.ret.total = 2
    /\ last.ret.count = 1
    /\ \E r \in plans : r.created_at.t > CreatedAt(last.ret.data[1])

\* The POST /api/plans request has its response.
Responded == gen.pc = "done"
\* The model client was called and call_gemini has returned or raised.
Called == gen.call.result # "-"

\* C15: whatever the model client returns, a failure while generating a plan
\* leaves generate_plan as a GeminiAPIError or a ValidationError, never as an
\* exception of another kind.
C15_TwoErrorKinds ==
    Responded => gen.plan.result \in {"ok", "GeminiAPIError", "ValidationError"}

\* C16: POST /api/plans answers a ValidationError with 400, a GeminiAPIError
\* with 503 (the fixed rate-limit message when its text holds "429" or
\* "ResourceExhausted"), any other exception with 500, and answers 200 with a
\* plan only when generate_plan returned.
C16_PlanRouteStatus ==
    Responded =>
        /\ gen.plan.result = "ValidationError" => gen.response.status = 400
        /\ gen.plan.result = "GeminiAPIError" =>
               /\ gen.response.status = 503
               /\ IsRateLimit(gen.plan.msg) => gen.response.detail = RateLimitDetail
               /\ gen.response.detail = RateLimitDetail => IsRateLimit(gen.plan.msg)
        /\ gen.plan.result \notin {"ok", "ValidationError", "GeminiAPIError"} =>
               gen.response.status = 500
        /\ gen.response.status = 200 <=> gen.plan.result = "ok"
        /\ gen.response.status \in {200, 400, 500, 503}

C16_Witness ==
    /\ Responded /\ gen.plan.result = "GeminiAPIError"
    /\ gen.answer.kind = "raises" /\ gen.answer.type = "ResourceExhausted"
    /\ gen.response.status = 503 /\ gen.response.detail = RateLimitDetail

\* Content that is not JSON, or JSON that is not a plan: no object, no
\* schedules key, schedules no list or an empty one.
InvalidContent(text) ==
    LET j == JsonLoads(text) IN
    \/ j.result # "ok"
    \/ j.value.kind # "dict"
    \/ ~Has(j.value, "schedules")
    \/ Item(j.value, "schedules").kind # "list"
    \/ Len(Item(j.value, "schedules").items) = 0

\* C17: when the model returns content that is not JSON or that is
\* structurally invalid as a plan, POST /api/plans answers 503, an
\* external-service error.
C17_InvalidContentIs503 ==
    (Responded /\ Called /\ gen.answer.kind = "text" /\ InvalidContent(gen.answer.text))
        => gen.plan.result = "GeminiAPIError" /\ gen.response.status = 503

\* The answers of the model client that are a failure of the call: no answer
\* within the timeout, a transport error, an empty response, a text that is
\* not JSON.
FailedAnswer(a) ==
    \/ a.kind \in {"timeout", "raises", "falsy", "blocked"}
    \/ a.kind = "text" /\ (Len(a.text) = 0 \/ JsonLoads(a.text).result # "ok")

\* C18: call_gemini sends at most one request to the model and ends either
\* with the parsed JSON of the response or with a GeminiAPIError; a timeout,
\* a transport error, an empty response and a non-JSON text all end as
\* GeminiAPIError.
C18_CallGemini ==
    /\ gen.sent <= 1
    /\ Called =>
           /\ gen.sent = 1
           /\ gen.call.result \in {"ok", "GeminiAPIError"}
           /\ FailedAnswer(gen.answer) => gen.call.result = "GeminiAPIError"
           /\ gen.call.result = "ok" =>
                  /\ gen.answer.kind = "text"
                  /\ JsonLoads(gen.answer.text).result = "ok"
                  /\ gen.call.value = JsonLoads(gen.answer.text).value

C18_Witness ==
    /\ Called /\ gen.answer.kind = "timeout" /\ gen.sent = 1
    /\ gen.call.result = "GeminiAPIError"

\* C19: generate_travel_plan attempts the log write only after the call to
\* the model succeeded, and a failed log write changes nothing: the response
\* of the model is returned all the same.
C19_BestEffortLog ==
    /\ gen.logs <= 1
    /\ gen.logs = 1 => gen.call.result = "ok"
    /\ (Called /\ gen.call.result # "ok") => gen.logs = 0
    /\ (Responded /\ gen.logs = 1) => gen.travel = gen.call

C19_Witness ==
    /\ Responded /\ gen.logs = 1 /\ gen.log_failed
    /\ gen.travel.result = "ok" /\ gen.travel = gen.call

\* A TravelInput whose dates are dates, and whose start is not before its end
\* or whose budget is not positive.
NotBeforeOrNoBudget(inp) ==
    /\ Strptime(inp.start_date).result = "ok"
    /\ Strptime(inp.end_date).result = "ok"
    /\ \/ Strptime(inp.start_date).value >= Strptime(inp.end_date).value
       \/ inp.budget <= 0

\* C20: POST /api/plans sends no prompt to the model for a TravelInput whose
\* start_date is not strictly before its end_date or whose budget is not
\* positive; the input is rejected with status 400.
C20_RejectsBadInput ==
    (gen.pc # "idle" /\ NotBeforeOrNoBudget(gen.input)) =>
        /\ gen.sent = 0
        /\ Responded /\ gen.response.status = 400


EditHistoryRoute == "GET /api/storage/plans/{plan_id}/edit-history"

\* What the edit-history route answers, given when the plan has to exist,
\* the order the rows keep and the rank that picks them: 404 for a plan_id
\* with no plan row, orphaned history or not; otherwise at most limit rows of
\* the plan, the highest ranked, in order, with count their number.
EditHistoryAnswers(Exists(_), Ordered(_), key(_)) ==
    /\ (last'.route = EditHistoryRoute /\ last'.op = "get_plan" /\ last' # last) =>
          /\ last'.status = 404 <=> RowsOf(last'.plan_id, plans) = {}
          /\ last'.status \in {0, 404}
    /\ (last'.route = EditHistoryRoute /\ last'.status = 200 /\ last' # last) =>
          /\ Exists(last'.plan_id)
          /\ TopRows(last'.ret.data, last'.arg, RowsOf(last'.plan_id, history), key)
          /\ Ordered(last'.ret.data)
          /\ last'.ret.count = Len(last'.ret.data)
          /\ Len(last'.ret.data) <= last'.arg

\* C21: GET /api/storage/plans/{plan_id}/edit-history answers 404 whenever no
\* plan row with the plan_id exists when the history is read, orphaned
\* history rows or not, and otherwise answers with at most limit history rows
\* of the plan, newest first, and with count the number of rows returned.
C21_EditHistoryRoute ==
    [][ EditHistoryAnswers(LAMBDA p : RowsOf(p, plans) # {},
                           LaterRecordedFirst, RecordOrder) ]_vars

\* What the route does guarantee: 404 for a plan_id with no plan row when
\* get_plan looks for it, and rows ordered by created_at descending.
EditHistoryByCreatedAt ==
    [][ EditHistoryAnswers(LAMBDA p : TRUE, CreatedAtDescending, CreatedAt) ]_vars


\* The history rows whose plan_id is the plan_id of no plan row.
Orphans(tbl, hist) == {h \in hist : RowsOf(h.plan_id, tbl) = {}}

\* C22: record_edit succeeds and appends a row whether or not a plan row
\* with its plan_id exists, and no storage or history operation fails with a
\* storage error because orphaned history rows are present: on a store that
\* accepts every commit the only DatabaseError is that of save_plan for a
\* plan_id that is stored already.
C22_OrphansTolerated ==
    [][ /\ OpStep("record_edit") =>
              /\ last'.result = "ok"
              /\ history \subseteq history'
              /\ \E h \in history' \ history :
                    /\ h.plan_id = last'.plan_id
                    /\ history' = history \cup {h}
        /\ (now' = now /\ Orphans(plans, history) # {}
                /\ last'.result = "DatabaseError") =>
              /\ last'.op = "save_plan"
              /\ RowsOf(last'.plan_id, plans) # {}
      ]_vars

\* C22 witness: with the history row of a plan_id that has no plan row in
\* the store, a second record_edit for that plan_id succeeded.
C22_Witness ==
    /\ last.op = "record_edit" /\ last.result = "ok"
    /\ RowsOf(last.plan_id, plans) = {}
    /\ Cardinality(RowsOf(last.plan_id, history)) = 2
    /\ Orphans(plans, history) = history


\* Session i has been made and is in the state the request it serves implies:
\* closed at most once, used by its owner only, open exactly while it is the
\* db of its owner's running request.
SessionInOrder(i) ==
    i \in DOMAIN sessions.objs =>
        LET db == sessions.objs[i] IN
        /\ db.closes \in {0, 1}
        /\ db.used_by \subseteq {db.owner}
        /\ db.closes = 0 <=> sessions.at[db.owner].db = i
        /\ \A r \in Requests \ {db.owner} : sessions.at[r].db # i

SessionClosed(i) == i \in DOMAIN sessions.objs /\ sessions.objs[i].closes = 1

\* C23: every session get_db hands to a request is closed in the end, once,
\* when the request ends, whether the handler returned or raised; no second
\* request uses it.
C23_SessionsClosed ==
    /\ [](\A i \in 1..MaxSessions : SessionInOrder(i))
    /\ \A i \in 1..MaxSessions : (i \in DOMAIN sessions.objs) ~> SessionClosed(i)

\* C23 witness: one request's handler raised and its session is closed, and
\* the same request was later served with another session, used and closed
\* after a normal return, while a second request holds a session of its own.
C23_Witness ==
    \E i, j, k \in DOMAIN sessions.objs :
        /\ i < j
        /\ sessions.objs[i].owner = sessions.objs[j].owner
        /\ sessions.objs[i].ended = "raised" /\ sessions.objs[i].closes = 1
        /\ sessions.objs[j].ended = "returned" /\ sessions.objs[j].closes = 1
        /\ sessions.objs[j].used_by = {sessions.objs[j].owner}
        /\ sessions.objs[k].owner # sessions.objs[i].owner
        /\ sessions.objs[k].closes = 0


\* A value the claim calls well formed: an object with a schedules key whose
\* value is a non-empty list of objects that each have day, date and a
\* timeline that is a list.
WellFormedPlan(v) ==
    /\ v.kind = "dict" /\ Has(v, "schedules")
    /\ LET ss == Item(v, "schedules") IN
       /\ ss.kind = "list" /\ Len(ss.items) > 0
       /\ \A k \in DOMAIN ss.items :
             LET s == ss.items[k] IN
             /\ s.kind = "dict"
             /\ Has(s, "day") /\ Has(s, "date") /\ Has(s, "timeline")
             /\ Item(s, "timeline").kind = "list"

Validated == last.op = "validate_plan_structure"

\* C24: validate_plan_structure returns True for every well-formed value and
\* raises ValueError, no other exception, for every other value.
C24_ValidatePlanStructure ==
    Validated =>
        /\ last.result \in {"ok", "ValueError"}
        /\ last.result = "ok" <=> WellFormedPlan(last.arg)

\* The part of C24 the code keeps: well-formed values are the ones accepted,
\* and an object whose schedules is no list, is empty or holds objects only
\* is rejected with ValueError.
ValidateObjectsOfObjects ==
    Validated =>
        /\ last.result = "ok" <=> WellFormedPlan(last.arg)
        /\ (/\ last.arg.kind = "dict"
            /\ Has(last.arg, "schedules") =>
                   (Item(last.arg, "schedules").kind = "list" =>
                        \A k \in DOMAIN Item(last.arg, "schedules").items :
                            Item(last.arg, "schedules").items[k].kind = "dict"))
               => last.result \in {"ok", "ValueError"}

Parsing == last.op = "parse_gemini_response"

\* The response texts that carry the serialization of value v in wrapping w.
Carries(w, v) == Parsing /\ last.arg = Wrapped(w, JsonText(v))

\* C25: the serialization of a JSON object in a json block, in an unlabeled
\* block or among other prose is parsed back to that object; a text that
\* holds no valid JSON fails with ValueError, no other exception.
C25_ParseRoundTrip ==
    /\ Parsing => last.result \in {"ok", "ValueError"}
    /\ \A w \in Wrappings \ {"plain"}, v \in PromptValues :
           (Carries(w, v) /\ v.kind = "dict") => last.result = "ok" /\ last.ret = v

\* The part of C25 the code keeps: ValueError is the only failure, and the
\* round trip holds for an object none of whose strings holds the block
\* marker, wrapped in a block or in prose that has no brace and no marker.
ParseRoundTripPlainProse ==
    /\ Parsing => last.result \in {"ok", "ValueError"}
    /\ \A w \in {"plain", "json block", "block", "prose", "prose and json block"},
         v \in PromptValues :
           (/\ Carries(w, v) /\ v.kind = "dict"
            /\ \A k \in DOMAIN JsonText(v) : JsonText(v)[k] # Fence)
               => last.result = "ok" /\ last.ret = v


\* Request r of the upsert route makes the service call it stands before.
UpsertStep(r, pc) == reqs[r].pc = pc /\ reqs'[r].pc # pc

\* The stored plan of plan_id p has the schedules, total_cost and
\* total_duration of body.
StoredFrom(body, p, tbl) ==
    /\ Cardinality(RowsOf(p, tbl)) = 1
    /\ \A row \in RowsOf(p, tbl) :
          /\ row.schedules = SchedulesDict(body.schedules)
          /\ row.total_cost = body.total_cost
          /\ row.total_duration = body.total_duration

\* The bodies a row's schedules, total_cost and total_duration can come from.
Writers == {c[2] : c \in UpsertCalls} \cup OtherUpdates \cup OtherSaves

\* C26: of requests that update one stored plan_id concurrently each
\* succeeds, and after each commit the stored schedules, total_cost and
\* total_duration are all those of the request that committed, so the row
\* holds the data of the last one and never a mix of two requests' fields.
C26_LastWriteWins ==
    [][ /\ \A r \in Requests :
              (UpsertStep(r, "update")
                   /\ RowsOf(reqs[r].plan.plan_id, plans) # {}) =>
                  /\ last'.req = r /\ last'.op = "update_plan"
                  /\ last'.result = "ok" /\ last'.status = 200
                  /\ StoredFrom(reqs[r].plan, reqs[r].plan.plan_id, plans')
                  /\ \A q \in Requests \ {r} : reqs'[q] = reqs[q]
        /\ (OpStep("update_plan") /\ last'.result = "ok") =>
              StoredFrom(last'.arg, last'.plan_id, plans')
        /\ \A row \in plans' : \E body \in Writers :
              StoredFrom(body, row.plan_id, plans')
      ]_vars

\* C26 witness: two upsert requests with bodies that differ in all three
\* fields both found the plan stored; the first has committed its update and
\* the row is its body's, the second stands before its update.
C26_Witness ==
    /\ last.route = UpsertRoute /\ last.op = "update_plan" /\ last.status = 200
    /\ StoredFrom(last.arg, last.plan_id, plans)
    /\ \E q \in Requests \ {last.req} :
          /\ reqs[q].pc = "update"
          /\ reqs[q].plan.plan_id = last.plan_id
          /\ reqs[q].plan.schedules # last.arg.schedules
          /\ reqs[q].plan.total_cost # last.arg.total_cost
          /\ reqs[q].plan.total_duration # last.arg.total_duration

\* C27: of two upsert requests that both found the plan_id absent, the one
\* that inserts first succeeds and its body is stored in the one row of the
\* plan_id; the insert of the other fails with DatabaseError, the request
\* ends with status 500 and no update, and the table stays as it was.
C27_InsertRace ==
    [][ \A r \in Requests :
          UpsertStep(r, "insert") =>
              IF RowsOf(reqs[r].plan.plan_id, plans) # {}
              THEN /\ last'.req = r /\ last'.op = "save_plan"
                   /\ last'.result = "DatabaseError" /\ last'.status = 500
                   /\ reqs'[r] = Idle
                   /\ plans' = plans
                   /\ Cardinality(RowsOf(reqs[r].plan.plan_id, plans')) = 1
              ELSE /\ last'.req = r /\ last'.op = "save_plan"
                   /\ last'.result = "ok" /\ last'.status = 200
                   /\ StoredFrom(reqs[r].plan, reqs[r].plan.plan_id, plans')
                   /\ \A q \in Requests \ {r} : reqs'[q] = reqs[q]
      ]_vars

\* C27 witness: the second request's insert was refused with status 500; the
\* one row of the plan_id is the one the first request inserted meanwhile,
\* with another input_data, schedules and total_cost than the loser's body.
C27_Witness ==
    /\ last.route = UpsertRoute /\ last.req = "r2"
    /\ last.op = "save_plan" /\ last.result = "DatabaseError" /\ last.status = 500
    /\ reqs["r2"] = Idle
    /\ Cardinality(RowsOf(last.plan_id, plans)) = 1
    /\ \A row \in RowsOf(last.plan_id, plans) :
          /\ row.input_data = JsonRoundTrip(InTokyo)
          /\ row.schedules = <<>>
          /\ row.total_cost = 0

\* C28: an upsert request that found the plan stored and whose update_plan
\* then finds no row (a delete committed in between) gets PlanNotFoundError,
\* goes on to save_plan in the same handler, and that insert, made while the
\* plan_id is still absent, answers success and stores the request's body;
\* neither step adds a history row.
C28_DeleteBeforeUpdate ==
    [][ \A r \in Requests :
          /\ (UpsertStep(r, "update")
                  /\ RowsOf(reqs[r].plan.plan_id, plans) = {}) =>
                 /\ last'.req = r /\ last'.op = "update_plan"
                 /\ last'.result = "PlanNotFoundError" /\ last'.status = 0
                 /\ reqs'[r] = [reqs[r] EXCEPT !.pc = "insert"]
                 /\ plans' = plans
                 /\ history' = history
          /\ (UpsertStep(r, "insert")
                  /\ RowsOf(reqs[r].plan.plan_id, plans) = {}) =>
                 /\ last'.status = 200
                 /\ StoredFrom(reqs[r].plan, reqs[r].plan.plan_id, plans')
                 /\ history' = history
      ]_vars

\* C28 witness: the update of an upsert request found no row, the plan
\* having been deleted after the request's check; the request stands before
\* its insert, which the store has room for.
C28_Witness ==
    /\ last.route = UpsertRoute /\ last.op = "update_plan"
    /\ last.result = "PlanNotFoundError"
    /\ reqs[last.req].pc = "insert"
    /\ RowsOf(last.plan_id, plans) = {}
    /\ RowsOf(last.plan_id, history) = {}
    /\ nextId <= MaxRows


GetRoute == "GET /api/storage/plans/{plan_id}"

\* C30: no step of POST /api/plans changes the plan table or the history
\* table; the get route answers 404 for a plan_id that has no plan row; and a
\* row for the generated plan_id comes into the table only by a save_plan of
\* the upsert route that is answered with success.
C30_GenerationStoresNothing ==
    [][ /\ gen' # gen => plans' = plans /\ history' = history
        /\ (last'.route = GetRoute /\ RowsOf(last'.plan_id, plans') = {}) =>
              last'.status = 404
        /\ (RowsOf(GeneratedId, plans) = {} /\ RowsOf(GeneratedId, plans') # {}) =>
              /\ gen' = gen
              /\ last'.route = UpsertRoute /\ last'.op = "save_plan"
              /\ last'.plan_id = GeneratedId /\ last'.status = 200
      ]_vars

\* C30 witness: POST /api/plans was answered with a plan, and the get route,
\* asked for that plan's plan_id, answered 404.
C30_Witness ==
    /\ Responded /\ gen.plan.result = "ok" /\ gen.response.status = 200
    /\ last.route = GetRoute /\ last.plan_id = gen.plan.value.plan_id
    /\ last.status = 404

====
